---- MODULE Spec2Model ----
(***************************************************************************)
(* Road-safety intervention estimator: the document pipeline               *)
(* (AnalysisService.process_document driven by process_document_background)*)
(* and the tiered price resolution (PricingService.get_material_price)     *)
(* with its volatile (Redis) and durable (price_cache table) cache layers. *)
(*                                                                         *)
(* Time is counted in whole days: REDIS_CACHE_TTL = 86400 s is one day and *)
(* the durable validity window is timedelta(days=90).  Quantities          *)
(* and costs are exact integers: a derived material quantity is kept in    *)
(* hundredths (value * ratio with the ratio scaled by 100), so the floating *)
(* product quantity * unit_rate of the source is an integer product here.  *)
(***************************************************************************)
EXTENDS Integers, Sequences, FiniteSets, TLC

VARIABLES
    now,            \* the clock, datetime.now(), in days
    redis,          \* the volatile cache: entries written by setex
    redis_client,   \* PricingService.redis_client is set (ping succeeded)
    price_cache,    \* committed rows of table price_cache
    sess_broken,    \* the session's transaction failed and was not rolled back
    last,           \* the last call of get_material_price: request, result, tiers
    documents,      \* committed rows of table documents, by id
    analyses,       \* committed rows of table analyses
    interventions,  \* committed rows of table interventions
    cost_items,     \* committed rows of table cost_items
    staged,         \* the session's unit of work: rows added/changed, not committed
    queue,          \* background tasks scheduled and not yet started
    run,            \* the background run in progress (pc, locals of process_document)
    chroma,         \* the persisted vector index: the collection and its documents
    rag_service,    \* the RAGService instance of the running process
    rag_req,        \* the arguments of a call of find_relevant_standards
    rag_found,      \* what that call returned
    ai_in,          \* the arguments of a call of a function of AIService
    ai_out,         \* what that call returned
    lookups,        \* concurrent calls of get_material_price, by caller: position, locals
    writes,         \* the cache entries written so far, whole, and the last setex
    workers         \* the server's worker processes: the background task of each

vars == <<now, redis, redis_client, price_cache, sess_broken, last,
          documents, analyses, interventions, cost_items, staged, queue, run,
          chroma, rag_service, rag_req, rag_found, ai_in, ai_out, lookups, writes,
          workers>>

pricingVars == <<now, redis, redis_client, price_cache, sess_broken, last>>
pricingVarsButSession == <<now, redis, redis_client, price_cache, last>>
storeVars == <<documents, analyses, interventions, cost_items, staged, queue, run>>
ragVars == <<chroma, rag_service, rag_req, rag_found>>
aiVars == <<ai_in, ai_out>>
lookupVars == <<lookups, writes>>
workerVars == <<workers>>

-----------------------------------------------------------------------------
(* Bounds of the model *)

MaxTicks == 1       \* clock advances per behaviour
MaxHits == 1        \* cap on a durable entry's cache_hits
MaxDocs == 1        \* documents uploaded per behaviour
MaxQueue == 1       \* background tasks waiting at once
MaxLookups == 2     \* concurrent callers of get_material_price
MaxFaults == 1      \* faults of the database or the index swallowed by runs
MaxWorkers == 2     \* worker processes of the server (settings.WORKERS is 4)

(* Program constants *)

REDIS_CACHE_TTL == 1        \* 86400 seconds, in days
ValidDays == 90             \* timedelta(days=90)
generic_rate == 1000        \* last-resort rate
MinTextLen == 50            \* len(text.strip()) < 50
DefaultQuantity == 100      \* 100.0 * rule['ratio']

-----------------------------------------------------------------------------
(* Strings.  Python compares material names as character strings          *)
(* (str.lower(), the substring test "a in b"); a name is spelled out as    *)
(* its sequence of characters so that both are computed, not assumed.      *)

Spell ==
     "Steel Crash Barrier" :> <<"S","t","e","e","l"," ","C","r","a","s","h"," ","B","a","r","r","i","e","r">>
  @@ "Concrete Safety Barrier" :> <<"C","o","n","c","r","e","t","e"," ","S","a","f","e","t","y"," ","B","a","r","r","i","e","r">>
  @@ "Guardrail Post" :> <<"G","u","a","r","d","r","a","i","l"," ","P","o","s","t">>
  @@ "Thermoplastic Paint" :> <<"T","h","e","r","m","o","p","l","a","s","t","i","c"," ","P","a","i","n","t">>
  @@ "Cold Paint" :> <<"C","o","l","d"," ","P","a","i","n","t">>
  @@ "Glass Beads" :> <<"G","l","a","s","s"," ","B","e","a","d","s">>
  @@ "Cat Eye Road Stud" :> <<"C","a","t"," ","E","y","e"," ","R","o","a","d"," ","S","t","u","d">>
  @@ "Solar Road Stud" :> <<"S","o","l","a","r"," ","R","o","a","d"," ","S","t","u","d">>
  @@ "Traffic Sign Board" :> <<"T","r","a","f","f","i","c"," ","S","i","g","n"," ","B","o","a","r","d">>
  @@ "Sign Post" :> <<"S","i","g","n"," ","P","o","s","t">>
  @@ "Rumble Strip" :> <<"R","u","m","b","l","e"," ","S","t","r","i","p">>
  @@ "Speed Hump" :> <<"S","p","e","e","d"," ","H","u","m","p">>
  @@ "Footpath Paving" :> <<"F","o","o","t","p","a","t","h"," ","P","a","v","i","n","g">>
  @@ "Tactile Paving" :> <<"T","a","c","t","i","l","e"," ","P","a","v","i","n","g">>
  @@ "Pedestrian Railing" :> <<"P","e","d","e","s","t","r","i","a","n"," ","R","a","i","l","i","n","g">>
  @@ "LED Street Light" :> <<"L","E","D"," ","S","t","r","e","e","t"," ","L","i","g","h","t">>
  @@ "Light Pole" :> <<"L","i","g","h","t"," ","P","o","l","e">>
  @@ "Flexible Delineator" :> <<"F","l","e","x","i","b","l","e"," ","D","e","l","i","n","e","a","t","o","r">>
  @@ "Chevron Marker" :> <<"C","h","e","v","r","o","n"," ","M","a","r","k","e","r">>
  @@ "General Safety Intervention" :> <<"G","e","n","e","r","a","l"," ","S","a","f","e","t","y"," ","I","n","t","e","r","v","e","n","t","i","o","n">>
  @@ "crash barrier" :> <<"c","r","a","s","h"," ","b","a","r","r","i","e","r">>
  @@ "LED Street Light Pole" :> <<"L","E","D"," ","S","t","r","e","e","t"," ","L","i","g","h","t"," ","P","o","l","e">>
  @@ "Paint" :> <<"P","a","i","n","t">>
  @@ "Drainage" :> <<"D","r","a","i","n","a","g","e">>

LowerOf ==
  "A" :> "a" @@ "B" :> "b" @@ "C" :> "c" @@ "D" :> "d" @@ "E" :> "e" @@ "F" :> "f" @@ "G" :> "g"
  @@ "H" :> "h" @@ "I" :> "i" @@ "J" :> "j" @@ "K" :> "k" @@ "L" :> "l" @@ "M" :> "m" @@ "N" :> "n"
  @@ "O" :> "o" @@ "P" :> "p" @@ "Q" :> "q" @@ "R" :> "r" @@ "S" :> "s" @@ "T" :> "t" @@ "U" :> "u"
  @@ "V" :> "v" @@ "W" :> "w" @@ "X" :> "x" @@ "Y" :> "y" @@ "Z" :> "z"

\* str.lower() of a spelled string
lower(s) == [i \in 1..Len(s) |-> IF s[i] \in DOMAIN LowerOf THEN LowerOf[s[i]] ELSE s[i]]

\* Python's  a in b  for strings: a occurs in b as a contiguous run
StrIn(a, b) == \E i \in 0..(Len(b) - Len(a)) : SubSeq(b, i + 1, i + Len(a)) = a

-----------------------------------------------------------------------------
(* PricingService.material_database, in the order of the dict literal      *)

material_database == <<
  [name |-> "Steel Crash Barrier",     unit |-> "m",   cpwd_code |-> "CPWD-SOR-2023-12.45", typical_rate |-> 1850],
  [name |-> "Concrete Safety Barrier", unit |-> "m",   cpwd_code |-> "CPWD-SOR-2023-12.46", typical_rate |-> 2200],
  [name |-> "Guardrail Post",          unit |-> "nos", cpwd_code |-> "CPWD-SOR-2023-12.47", typical_rate |-> 850],
  [name |-> "Thermoplastic Paint",     unit |-> "kg",  cpwd_code |-> "CPWD-SOR-2023-18.23", typical_rate |-> 185],
  [name |-> "Cold Paint",              unit |-> "ltr", cpwd_code |-> "CPWD-SOR-2023-18.24", typical_rate |-> 95],
  [name |-> "Glass Beads",             unit |-> "kg",  cpwd_code |-> "CPWD-SOR-2023-18.25", typical_rate |-> 42],
  [name |-> "Cat Eye Road Stud",       unit |-> "nos", cpwd_code |-> "CPWD-SOR-2023-18.31", typical_rate |-> 125],
  [name |-> "Solar Road Stud",         unit |-> "nos", cpwd_code |-> "CPWD-SOR-2023-18.32", typical_rate |-> 850],
  [name |-> "Traffic Sign Board",      unit |-> "sqm", cpwd_code |-> "CPWD-SOR-2023-18.15", typical_rate |-> 3200],
  [name |-> "Sign Post",               unit |-> "nos", cpwd_code |-> "CPWD-SOR-2023-18.16", typical_rate |-> 1850],
  [name |-> "Rumble Strip",            unit |-> "m",   cpwd_code |-> "CPWD-SOR-2023-18.42", typical_rate |-> 450],
  [name |-> "Speed Hump",              unit |-> "nos", cpwd_code |-> "CPWD-SOR-2023-18.43", typical_rate |-> 4500],
  [name |-> "Footpath Paving",         unit |-> "sqm", cpwd_code |-> "CPWD-SOR-2023-14.35", typical_rate |-> 425],
  [name |-> "Tactile Paving",          unit |-> "sqm", cpwd_code |-> "CPWD-SOR-2023-14.36", typical_rate |-> 850],
  [name |-> "Pedestrian Railing",      unit |-> "m",   cpwd_code |-> "CPWD-SOR-2023-12.52", typical_rate |-> 1250],
  [name |-> "LED Street Light",        unit |-> "nos", cpwd_code |-> "CPWD-SOR-2023-16.25", typical_rate |-> 12500],
  [name |-> "Light Pole",              unit |-> "nos", cpwd_code |-> "CPWD-SOR-2023-16.26", typical_rate |-> 8500],
  [name |-> "Flexible Delineator",     unit |-> "nos", cpwd_code |-> "CPWD-SOR-2023-18.35", typical_rate |-> 650],
  [name |-> "Chevron Marker",          unit |-> "nos", cpwd_code |-> "CPWD-SOR-2023-18.36", typical_rate |-> 1250]
>>

\* material_database.get(material_name): the index of the entry, 0 for None
database_get(material_name) ==
  IF \E i \in DOMAIN material_database : material_database[i].name = material_name
  THEN CHOOSE i \in DOMAIN material_database : material_database[i].name = material_name
  ELSE 0

-----------------------------------------------------------------------------
(* The two cache layers *)

NoEntry == [id |-> 0]
NoFaults == [rget |-> FALSE, rset |-> FALSE, dbread |-> FALSE, dbcommit |-> FALSE]

\* What the environment may do to one call: each cache operation of the call
\* may raise (Redis get, Redis setex, the durable query, and the one commit a
\* call makes: that of a hit update or that of a write-back).
Faults == [rget : BOOLEAN, rset : BOOLEAN, dbread : BOOLEAN, dbcommit : BOOLEAN]

\* redis_client.get(cache_key): the live entry under price:<material>:<unit>
redis_get(material_name, unit) ==
  {r \in redis : r.material_name = material_name /\ r.unit = unit /\ now < r.expires_at}

\* filter(material_name ==, unit ==, valid_until > now())
durable_valid(material_name, unit) ==
  {e \in price_cache : e.material_name = material_name /\ e.unit = unit /\ e.valid_until > now}

\* the query without its order_by: any unexpired row
durable_first_unordered(material_name, unit) ==
  LET valid == durable_valid(material_name, unit)
  IN  IF valid = {} THEN {NoEntry} ELSE valid

\* .order_by(fetched_at.desc()).first(): the rows the query may return
\* (rows of equal fetched_at come in an order the database chooses)
durable_first(material_name, unit) ==
  LET valid == durable_valid(material_name, unit)
  IN  IF valid = {} THEN {NoEntry}
      ELSE {e \in valid : \A o \in valid : o.fetched_at <= e.fetched_at}

\* A flush of the session (autoflush of a query, flush(), commit()) raises when
\* the transaction already failed, or when a staged row breaks a constraint:
\* a cost item whose intervention_id names no intervention row (ForeignKey,
\* nullable=False), a second analyses row for a document (unique=True).
\* a flush against an analyses table without the unique constraint
flush_fails_no_unique(st) ==
  \/ sess_broken
  \/ \E c \in st.cost_items :
        c.intervention_id \notin {i.id : i \in interventions \cup st.interventions}

flush_fails_with(st) ==
  \/ sess_broken
  \/ \E c \in st.cost_items :
        c.intervention_id \notin {i.id : i \in interventions \cup st.interventions}
  \/ \E a \in st.analyses : \E b \in analyses : b.document_id = a.document_id

flush_fails == flush_fails_with(staged)

\* the exception a flush of the staged rows st raises ("" when it succeeds)
flush_error(st) ==
  IF sess_broken THEN "PendingRollbackError"
  ELSE IF flush_fails_with(st) THEN "IntegrityError"
  ELSE ""

\* a hit that also extends the validity of the entry
hit_update_extends(e) ==
  [e EXCEPT !.cache_hits = @ + 1, !.last_accessed = now, !.updated_at = now,
            !.valid_until = now + ValidDays]

\* cache_entry.cache_hits += 1; cache_entry.last_accessed = now(); the UPDATE
\* also fires the column's onupdate=func.now() of updated_at
hit_update(e) ==
  [e EXCEPT !.cache_hits = @ + 1, !.last_accessed = now, !.updated_at = now]

\* the dict _get_cached_price returns for a row or an unpickled Redis value
cached_dict(e) ==
  [unit_rate |-> e.unit_rate, source |-> e.source,
   source_reference |-> e.source_reference, fetched_at |-> e.fetched_at]

\* PricingService._get_cached_price.  e is the row the durable query returns.
\* txn tells what the call did to the session: "broken" when the autoflush
\* of the query raised, "failed_read" when the query itself raised,
\* "failed_commit" when the commit of the hit update raised.
get_cached_price(material_name, unit, f, e) ==
  LET fast == redis_get(material_name, unit)
      t0 == IF redis_client THEN <<"fast">> ELSE <<>>
  IN  IF redis_client /\ ~f.rget /\ fast # {}
      THEN [kind |-> "hit", tier |-> "fast",
            cached |-> cached_dict(CHOOSE r \in fast : TRUE),
            price_cache |-> price_cache, txn |-> "none", trace |-> t0]
      ELSE IF flush_fails \/ f.dbread
      THEN [kind |-> "raised", tier |-> "durable", price_cache |-> price_cache,
            txn |-> IF flush_fails THEN "broken" ELSE "failed_read",
            trace |-> t0 \o <<"durable">>]
      ELSE IF e.id # 0
      THEN IF f.dbcommit
           THEN [kind |-> "raised", tier |-> "durable", price_cache |-> price_cache,
                 txn |-> "failed_commit", trace |-> t0 \o <<"durable">>]
           ELSE [kind |-> "hit", tier |-> "durable", cached |-> cached_dict(e),
                 price_cache |-> (price_cache \ {e}) \cup {hit_update(e)},
                 txn |-> "commit", trace |-> t0 \o <<"durable">>]
      ELSE [kind |-> "miss", tier |-> "none", price_cache |-> price_cache,
            txn |-> "none", trace |-> t0 \o <<"durable">>]

-----------------------------------------------------------------------------
(* Price sources *)

NoPrice == [found |-> FALSE]

\* PricingService._fetch_from_cpwd_sor: the request is not made, returns None
fetch_from_cpwd_sor(material_name, unit) == NoPrice

\* PricingService._fetch_from_gem: the request is not made, returns None
fetch_from_gem(material_name, unit) == NoPrice

\* the two sources tried in the other order
fetch_price_gem_first(material_name, unit, cpwd, gem) ==
  LET i == database_get(material_name)
  IN  IF i # 0
      THEN [found |-> TRUE, tier |-> "reference", trace |-> <<"reference">>,
            unit_rate |-> material_database[i].typical_rate, source |-> "CPWD_SOR",
            reference |-> material_database[i].cpwd_code]
      ELSE IF gem.found
      THEN [found |-> TRUE, tier |-> "external", trace |-> <<"reference", "gem">>,
            unit_rate |-> gem.unit_rate, source |-> gem.source,
            reference |-> gem.reference]
      ELSE IF cpwd.found
      THEN [found |-> TRUE, tier |-> "external", trace |-> <<"reference", "gem", "cpwd">>,
            unit_rate |-> cpwd.unit_rate, source |-> cpwd.source,
            reference |-> cpwd.reference]
      ELSE [found |-> FALSE, tier |-> "none", trace |-> <<"reference", "gem", "cpwd">>]

\* the body of _fetch_price_from_sources; cpwd is what _fetch_from_cpwd_sor
\* returns when it is awaited and gem what _fetch_from_gem returns
fetch_price_from(material_name, unit, cpwd, gem) ==
  LET i == database_get(material_name)
  IN  IF i # 0
      THEN [found |-> TRUE, tier |-> "reference", trace |-> <<"reference">>,
            unit_rate |-> material_database[i].typical_rate, source |-> "CPWD_SOR",
            reference |-> material_database[i].cpwd_code]
      ELSE IF cpwd.found
      THEN [found |-> TRUE, tier |-> "external", trace |-> <<"reference", "cpwd">>,
            unit_rate |-> cpwd.unit_rate, source |-> cpwd.source,
            reference |-> cpwd.reference]
      ELSE IF gem.found
      THEN [found |-> TRUE, tier |-> "external", trace |-> <<"reference", "cpwd", "gem">>,
            unit_rate |-> gem.unit_rate, source |-> gem.source,
            reference |-> gem.reference]
      ELSE [found |-> FALSE, tier |-> "none", trace |-> <<"reference", "cpwd", "gem">>]

\* the sources tried in the other order: CPWD, GeM, then the reference table
fetch_price_external_first(material_name, unit) ==
  LET i == database_get(material_name)
      cpwd == fetch_from_cpwd_sor(material_name, unit)
      gem == fetch_from_gem(material_name, unit)
  IN  IF cpwd.found
      THEN [found |-> TRUE, tier |-> "external", trace |-> <<"cpwd">>,
            unit_rate |-> cpwd.unit_rate, source |-> cpwd.source,
            reference |-> cpwd.reference]
      ELSE IF gem.found
      THEN [found |-> TRUE, tier |-> "external", trace |-> <<"cpwd", "gem">>,
            unit_rate |-> gem.unit_rate, source |-> gem.source,
            reference |-> gem.reference]
      ELSE IF i # 0
      THEN [found |-> TRUE, tier |-> "reference", trace |-> <<"cpwd", "gem", "reference">>,
            unit_rate |-> material_database[i].typical_rate, source |-> "CPWD_SOR",
            reference |-> material_database[i].cpwd_code]
      ELSE [found |-> FALSE, tier |-> "none", trace |-> <<"cpwd", "gem", "reference">>]

\* PricingService._fetch_price_from_sources
fetch_price_from_sources(material_name, unit) ==
  fetch_price_from(material_name, unit, fetch_from_cpwd_sor(material_name, unit),
                   fetch_from_gem(material_name, unit))

\* the fuzzy loop of _get_fallback_price: the first entry, in table order, whose
\* lower-cased name contains the lower-cased request or is contained in it
fuzzy_scan(material_name) ==
  LET req == lower(Spell[material_name])
      hits == {i \in DOMAIN material_database :
                 LET nm == lower(Spell[material_database[i].name])
                 IN  StrIn(req, nm) \/ StrIn(nm, req)}
  IN  IF hits = {} THEN 0 ELSE CHOOSE i \in hits : \A j \in hits : i <= j

\* the scan, evaluated once per name
FuzzyTable == [n \in DOMAIN Spell |-> fuzzy_scan(n)]

fuzzy_match(material_name) == FuzzyTable[material_name]

\* PricingService._get_fallback_price
get_fallback_price(material_name, quantity, unit) ==
  LET x == database_get(material_name)
      i == IF x # 0 THEN x ELSE fuzzy_match(material_name)
  IN  IF i # 0
      THEN [kind |-> "ok", material_name |-> material_database[i].name,
            quantity |-> quantity, unit |-> unit,
            unit_rate |-> material_database[i].typical_rate,
            total_cost |-> quantity * material_database[i].typical_rate,
            source |-> "Material_Database",
            source_reference |-> material_database[i].cpwd_code,
            fetched_at |-> now, from_cache |-> FALSE,
            is_estimate |-> TRUE, requires_verification |-> FALSE]
      ELSE [kind |-> "ok",
            material_name |-> material_name, quantity |-> quantity, unit |-> unit,
            unit_rate |-> generic_rate, total_cost |-> quantity * generic_rate,
            source |-> "Estimated",
            source_reference |-> "Generic Rate (Verification Required)",
            fetched_at |-> now, from_cache |-> FALSE,
            is_estimate |-> TRUE, requires_verification |-> TRUE]

\* which branch of _get_fallback_price answers (for the record of the call)
fallback_tier(material_name) ==
  IF database_get(material_name) # 0 THEN "reference"
  ELSE IF fuzzy_match(material_name) # 0 THEN "fuzzy" ELSE "generic"

-----------------------------------------------------------------------------
(* Cache write-back *)

\* redis_client.setex(cache_key, REDIS_CACHE_TTL, pickle.dumps(cache_data)):
\* the value under the key is replaced as a whole
redis_setex(material_name, unit, price_data) ==
  {r \in redis : ~(r.material_name = material_name /\ r.unit = unit)}
  \cup {[material_name |-> material_name, unit |-> unit,
         unit_rate |-> price_data.unit_rate, source |-> price_data.source,
         source_reference |-> price_data.reference, fetched_at |-> now,
         expires_at |-> now + REDIS_CACHE_TTL]}

\* the row written with a validity window that is over at once
new_cache_entry_expired(material_name, unit, price_data) ==
  [id |-> Cardinality(price_cache) + 1,
   material_name |-> material_name, unit |-> unit,
   unit_rate |-> price_data.unit_rate, source |-> price_data.source,
   source_reference |-> price_data.reference,
   valid_from |-> now, valid_until |-> now, fetched_at |-> now,
   cache_hits |-> 0, last_accessed |-> now, updated_at |-> now]

\* PriceCache(...) as _cache_price builds it; the id is the table's next key
new_cache_entry(material_name, unit, price_data) ==
  [id |-> Cardinality(price_cache) + 1,
   material_name |-> material_name, unit |-> unit,
   unit_rate |-> price_data.unit_rate, source |-> price_data.source,
   source_reference |-> price_data.reference,
   valid_from |-> now, valid_until |-> now + ValidDays, fetched_at |-> now,
   cache_hits |-> 0, last_accessed |-> now, updated_at |-> now]

\* both writes under one try: a failing Redis write skips the durable write
cache_price_one_try(material_name, unit, price_data, f) ==
  LET fast_failed == redis_client /\ f.rset
  IN  [redis |-> IF redis_client /\ ~f.rset
                 THEN redis_setex(material_name, unit, price_data) ELSE redis,
       price_cache |-> IF fast_failed \/ f.dbcommit THEN price_cache
                       ELSE price_cache \cup {new_cache_entry(material_name, unit, price_data)},
       txn |-> IF fast_failed THEN "none" ELSE IF f.dbcommit THEN "rollback" ELSE "commit",
       writes |-> (IF redis_client THEN <<"fast">> ELSE <<>>)
                  \o (IF fast_failed THEN <<>> ELSE <<"durable">>),
       write_failed |-> IF fast_failed THEN {"fast"}
                        ELSE IF f.dbcommit THEN {"durable"} ELSE {}]

\* PricingService._cache_price: the Redis write (when a client is connected)
\* and the durable write are attempted in this order, each in its own try;
\* each failure is swallowed; the durable write commits the session, its
\* failure rolls it back.  writes lists the writes attempted, write_failed
\* the ones that raised.
cache_price(material_name, unit, price_data, f) ==
  [redis |-> IF redis_client /\ ~f.rset
             THEN redis_setex(material_name, unit, price_data) ELSE redis,
   price_cache |-> IF f.dbcommit THEN price_cache
                   ELSE price_cache \cup {new_cache_entry(material_name, unit, price_data)},
   txn |-> IF f.dbcommit THEN "rollback" ELSE "commit",
   writes |-> (IF redis_client THEN <<"fast">> ELSE <<>>) \o <<"durable">>,
   write_failed |-> (IF redis_client /\ f.rset THEN {"fast"} ELSE {})
                    \cup (IF f.dbcommit THEN {"durable"} ELSE {})]

-----------------------------------------------------------------------------
(* PricingService.get_material_price.  The value describes the whole call: *)
(* ret is what the caller receives (kind "raised" when the call raises),   *)
(* redis and price_cache are the cache layers after it, txn is what the    *)
(* call did to the caller's session (commit, rollback, left broken), trace *)
(* lists the tiers consulted in order and tier names the one that answered.*)

\* the result dict with the rate in place of quantity * rate
priced_rate_only(material_name, quantity, unit, unit_rate, source, source_reference, fetched_at, from_cache) ==
  [kind |-> "ok", material_name |-> material_name, quantity |-> quantity,
   unit |-> unit, unit_rate |-> unit_rate, total_cost |-> unit_rate,
   source |-> source, source_reference |-> source_reference,
   fetched_at |-> fetched_at, from_cache |-> from_cache,
   is_estimate |-> FALSE, requires_verification |-> FALSE]

\* the dict get_material_price returns for a cached or a fetched price
priced(material_name, quantity, unit, unit_rate, source, source_reference, fetched_at, from_cache) ==
  [kind |-> "ok", material_name |-> material_name, quantity |-> quantity,
   unit |-> unit, unit_rate |-> unit_rate, total_cost |-> quantity * unit_rate,
   source |-> source, source_reference |-> source_reference,
   fetched_at |-> fetched_at, from_cache |-> from_cache,
   is_estimate |-> FALSE, requires_verification |-> FALSE]

\* the chain with a write-back of the fallback result as well
get_material_price_caching_fallback(material_name, quantity, unit, f, e) ==
  LET c == get_cached_price(material_name, unit, f, e)
      p == fetch_price_from_sources(material_name, unit)
      b == get_fallback_price(material_name, quantity, unit)
      w == cache_price(material_name, unit,
                       IF p.found THEN p
                       ELSE [unit_rate |-> b.unit_rate, source |-> b.source,
                             reference |-> b.source_reference], f)
  IN  IF c.kind = "raised"
      THEN [ret |-> [kind |-> "raised"], redis |-> redis, price_cache |-> c.price_cache,
            txn |-> c.txn, trace |-> c.trace, tier |-> "none",
            writes |-> <<>>, write_failed |-> {}]
      ELSE IF c.kind = "hit"
      THEN [ret |-> priced(material_name, quantity, unit, c.cached.unit_rate,
                           c.cached.source, c.cached.source_reference,
                           c.cached.fetched_at, TRUE),
            redis |-> redis, price_cache |-> c.price_cache,
            txn |-> c.txn, trace |-> c.trace, tier |-> c.tier,
            writes |-> <<>>, write_failed |-> {}]
      ELSE [ret |-> IF p.found
                    THEN priced(material_name, quantity, unit, p.unit_rate,
                                p.source, p.reference, now, FALSE)
                    ELSE b,
            redis |-> w.redis, price_cache |-> w.price_cache,
            txn |-> w.txn,
            trace |-> IF p.found THEN c.trace \o p.trace
                      ELSE c.trace \o p.trace \o <<"fallback">>,
            tier |-> IF p.found THEN p.tier ELSE fallback_tier(material_name),
            writes |-> w.writes, write_failed |-> w.write_failed]

\* PricingService.get_material_price: the caches, the sources with a
\* write-back of what they found, the fallback
get_material_price(material_name, quantity, unit, f, e) ==
  LET c == get_cached_price(material_name, unit, f, e)
      p == fetch_price_from_sources(material_name, unit)
      w == cache_price(material_name, unit, p, f)
  IN  IF c.kind = "raised"
      THEN [ret |-> [kind |-> "raised"], redis |-> redis, price_cache |-> c.price_cache,
            txn |-> c.txn, trace |-> c.trace, tier |-> "none",
            writes |-> <<>>, write_failed |-> {}]
      ELSE IF c.kind = "hit"
      THEN [ret |-> priced(material_name, quantity, unit, c.cached.unit_rate,
                           c.cached.source, c.cached.source_reference,
                           c.cached.fetched_at, TRUE),
            redis |-> redis, price_cache |-> c.price_cache,
            txn |-> c.txn, trace |-> c.trace, tier |-> c.tier,
            writes |-> <<>>, write_failed |-> {}]
      ELSE IF p.found
      THEN [ret |-> priced(material_name, quantity, unit, p.unit_rate,
                           p.source, p.reference, now, FALSE),
            redis |-> w.redis, price_cache |-> w.price_cache,
            txn |-> w.txn, trace |-> c.trace \o p.trace, tier |-> p.tier,
            writes |-> w.writes, write_failed |-> w.write_failed]
      ELSE [ret |-> get_fallback_price(material_name, quantity, unit),
            redis |-> redis, price_cache |-> c.price_cache,
            txn |-> c.txn, trace |-> c.trace \o p.trace \o <<"fallback">>,
            tier |-> fallback_tier(material_name),
            writes |-> <<>>, write_failed |-> {}]

-----------------------------------------------------------------------------
(* Pattern extraction (AIService).  A sentence is described by what the    *)
(* matchers find in it: phrases is the set of vocabulary phrases that are  *)
(* substrings of sentence.lower(), locs the GPE/LOC/FAC entities in order, *)
(* chainage the formatted first chainage match ("None" if there is none),  *)
(* qm the quantity matches in text order, each with the index of the       *)
(* quantity pattern that produced it, words is len(sentence.split()).      *)
(* Scores are in hundredths.                                               *)

intervention_keywords == <<
  "guardrail", "crash barrier", "rumble strip", "speed bump", "traffic sign",
  "road marking", "pedestrian crossing", "footpath", "footway", "sidewalk",
  "street light", "road light", "illumination", "delineator", "chevron",
  "road hump", "speed table", "roundabout", "junction improvement",
  "median", "divider", "kerb", "pavement", "shoulder", "verge",
  "drainage", "culvert", "catch pit", "gutter", "safety barrier",
  "parapet", "railing", "fence", "cattle guard", "road stud", "cat eye",
  "reflector", "signage", "information board", "milestone", "km stone",
  "warning sign", "mandatory sign", "regulatory sign", "guide sign" >>

categories == <<
  [name |-> "Safety Barrier", kws |-> {"guardrail", "crash barrier", "safety barrier", "parapet", "railing"}],
  [name |-> "Traffic Calming", kws |-> {"rumble strip", "speed bump", "road hump", "speed table"}],
  [name |-> "Signage", kws |-> {"traffic sign", "signage", "warning sign", "mandatory sign", "guide sign", "information board"}],
  [name |-> "Road Marking", kws |-> {"road marking", "pavement marking", "line marking"}],
  [name |-> "Pedestrian Facility", kws |-> {"pedestrian crossing", "footpath", "footway", "sidewalk", "zebra crossing"}],
  [name |-> "Illumination", kws |-> {"street light", "road light", "illumination", "lighting"}],
  [name |-> "Delineation", kws |-> {"delineator", "chevron", "road stud", "cat eye", "reflector"}],
  [name |-> "Drainage", kws |-> {"drainage", "culvert", "catch pit", "gutter"}],
  [name |-> "Junction Improvement", kws |-> {"roundabout", "junction", "intersection"}],
  [name |-> "Road Furniture", kws |-> {"milestone", "km stone", "cattle guard"}] >>

NumPatterns == 7    \* len(self.quantity_patterns)

\* the category matched last in table order
classify_last_category(sentence) ==
  IF \E i \in DOMAIN categories : categories[i].kws \cap sentence.phrases # {}
  THEN categories[CHOOSE i \in DOMAIN categories :
                    /\ categories[i].kws \cap sentence.phrases # {}
                    /\ \A j \in (i + 1)..Len(categories) :
                         categories[j].kws \cap sentence.phrases = {}].name
  ELSE "General Safety Intervention"

\* AIService._classify_intervention_type: first category, in table order,
\* one of whose keywords occurs in the sentence
classify_intervention_type(sentence) ==
  IF \E i \in DOMAIN categories : categories[i].kws \cap sentence.phrases # {}
  THEN categories[CHOOSE i \in DOMAIN categories :
                    /\ categories[i].kws \cap sentence.phrases # {}
                    /\ \A j \in 1..(i - 1) : categories[j].kws \cap sentence.phrases = {}].name
  ELSE "General Safety Intervention"

RECURSIVE Concat(_)
Concat(ss) == IF ss = <<>> THEN <<>> ELSE Head(ss) \o Concat(Tail(ss))

\* AIService._extract_quantities over the joined context: pattern by pattern,
\* each pattern's matches in text order
extract_quantities(context) ==
  LET ofPattern(p) ==
        Concat([k \in 1..Len(context) |-> SelectSeq(context[k].qm, LAMBDA q : q.pat = p)])
      all == Concat([p \in 1..NumPatterns |-> ofPattern(p)])
  IN  [k \in 1..Len(all) |-> [value |-> all[k].value, unit |-> all[k].unit]]

\* the score without the cap on the share of the keywords
calculate_confidence_uncapped(sentence, keywords, quantities) ==
  LET score0 == 50 + Len(keywords) * 10
      score1 == IF quantities # <<>> THEN score0 + 20 ELSE score0
      score2 == IF 10 <= sentence.words /\ sentence.words <= 100 THEN score1 + 10 ELSE score1
  IN  IF score2 < 100 THEN score2 ELSE 100

\* AIService._calculate_confidence
calculate_confidence(sentence, keywords, quantities) ==
  LET min(a, b) == IF a < b THEN a ELSE b
      score0 == 50 + min(Len(keywords) * 10, 30)
      score1 == IF quantities # <<>> THEN score0 + 20 ELSE score0
      score2 == IF 10 <= sentence.words /\ sentence.words <= 100 THEN score1 + 10 ELSE score1
  IN  min(score2, 100)

\* AIService._extract_intervention_details
extract_intervention_details(sentence, keywords, context) ==
  LET locations == Concat([k \in 1..Len(context) |-> context[k].locs])
      quantities == extract_quantities(context)
  IN  [intervention_type |-> classify_intervention_type(sentence),
       description |-> sentence.text,
       location |-> IF locations # <<>> THEN locations[1] ELSE "None",
       chainage |-> sentence.chainage,
       quantities |-> quantities,
       confidence_score |-> calculate_confidence(sentence, keywords, quantities),
       keywords_matched |-> keywords]

\* AIService._merge_similar_interventions: first occurrence of each
\* (type, location, chainage) key is kept
RECURSIVE merge_from(_, _)
merge_from(ivs, seen) ==
  IF ivs = <<>> THEN <<>>
  ELSE LET iv == Head(ivs)
           key == <<iv.intervention_type, iv.location, iv.chainage>>
       IN  IF key \in seen THEN merge_from(Tail(ivs), seen)
           ELSE <<iv>> \o merge_from(Tail(ivs), seen \cup {key})

\* the last occurrence of each key kept instead of the first
merge_keep_last(ivs) ==
  LET key(iv) == <<iv.intervention_type, iv.location, iv.chainage>>
      last_of_key(k) == \A j \in (k + 1)..Len(ivs) : key(ivs[j]) # key(ivs[k])
      kept == SelectSeq([k \in 1..Len(ivs) |-> k], last_of_key)
  IN  [i \in 1..Len(kept) |-> ivs[kept[i]]]

merge_similar_interventions(ivs) == merge_from(ivs, {})

\* the keyword filter left out: every keyword counts as matched
matched_keywords_unfiltered(sentence) == intervention_keywords

\* [kw for kw in self.intervention_keywords if kw in sentence_lower]
matched_keywords(sentence) ==
  SelectSeq(intervention_keywords, LAMBDA kw : kw \in sentence.phrases)

\* AIService.extract_interventions
extract_interventions(text) ==
  LET sentences == text.sents
      n == Len(sentences)
      matched(i) == matched_keywords(sentences[i])
      Max(a, b) == IF a > b THEN a ELSE b
      Min(a, b) == IF a < b THEN a ELSE b
      detail(i) ==
        IF matched(i) # <<>>
        THEN <<extract_intervention_details(sentences[i], matched(i),
                  SubSeq(sentences, Max(1, i - 1), Min(n, i + 1)))>>
        ELSE <<>>
  IN  merge_similar_interventions(Concat([i \in 1..n |-> detail(i)]))

-----------------------------------------------------------------------------
(* Material derivation (AnalysisService._identify_materials).  ratio is    *)
(* the rule's ratio times 100.                                             *)

material_rules(intervention_type) ==
  CASE intervention_type = "Safety Barrier" ->
         << [name |-> "Steel Crash Barrier", unit |-> "m", ratio |-> 100],
            [name |-> "Guardrail Post", unit |-> "nos", ratio |-> 33] >>
    [] intervention_type = "Road Marking" ->
         << [name |-> "Thermoplastic Paint", unit |-> "kg", ratio |-> 50],
            [name |-> "Glass Beads", unit |-> "kg", ratio |-> 10] >>
    [] intervention_type = "Traffic Calming" ->
         << [name |-> "Rumble Strip", unit |-> "m", ratio |-> 100] >>
    [] intervention_type = "Signage" ->
         << [name |-> "Traffic Sign Board", unit |-> "sqm", ratio |-> 100],
            [name |-> "Sign Post", unit |-> "nos", ratio |-> 100] >>
    [] intervention_type = "Pedestrian Facility" ->
         << [name |-> "Footpath Paving", unit |-> "sqm", ratio |-> 100],
            [name |-> "Pedestrian Railing", unit |-> "m", ratio |-> 100] >>
    [] intervention_type = "Illumination" ->
         << [name |-> "LED Street Light", unit |-> "nos", ratio |-> 100],
            [name |-> "Light Pole", unit |-> "nos", ratio |-> 100] >>
    [] intervention_type = "Delineation" ->
         << [name |-> "Cat Eye Road Stud", unit |-> "nos", ratio |-> 100],
            [name |-> "Flexible Delineator", unit |-> "nos", ratio |-> 100] >>
    [] OTHER -> << [name |-> intervention_type, unit |-> "nos", ratio |-> 100] >>

\* the units of an extracted quantity that the inner loop accepts for a rule
unit_compatible(qty, rule) == qty.unit \in {rule.unit, "m", "meter", "metre"}

\* the unit test of the inner loop
unit_matches(qty, rule) ==
  /\ unit_compatible(qty, rule)
  /\ rule.unit \in {"m", "meter"}

identify_materials(intervention_data) ==
  LET quantities == intervention_data.quantities
      rules == material_rules(intervention_data.intervention_type)
      material(rule) ==
        IF quantities # <<>>
        THEN IF \E k \in DOMAIN quantities : unit_matches(quantities[k], rule)
             THEN LET k == CHOOSE k \in DOMAIN quantities :
                             /\ unit_matches(quantities[k], rule)
                             /\ \A j \in 1..(k - 1) : ~unit_matches(quantities[j], rule)
                  IN  [name |-> rule.name, quantity |-> quantities[k].value * rule.ratio,
                       unit |-> rule.unit, is_estimate |-> FALSE]
             ELSE [name |-> rule.name, quantity |-> quantities[1].value * rule.ratio,
                   unit |-> rule.unit, is_estimate |-> FALSE]
        ELSE [name |-> rule.name, quantity |-> DefaultQuantity * rule.ratio,
              unit |-> rule.unit, is_estimate |-> TRUE]
  IN  [r \in 1..Len(rules) |-> material(rules[r])]

-----------------------------------------------------------------------------
(* Quantity extraction over the characters of a text.  A text is the       *)
(* sequence of its characters, a pattern the syntax tree of its regular    *)
(* expression, and rx is the backtracking matcher of re: it yields the     *)
(* ways a pattern matches from a position in the order the matcher tries   *)
(* them, so that the first is the match re reports.  A thread is the       *)
(* position of the next character with the groups captured so far.         *)
(* Numbers are in hundredths, the value of a quantity (a product of two    *)
(* numbers for the two-number form) in ten-thousandths.                    *)

digits == <<"0", "1", "2", "3", "4", "5", "6", "7", "8", "9">>

whitespace == {" ", "\t", "\n"}

\* str.strip
RECURSIVE strip(_)
strip(s) ==
  IF s = <<>> THEN s
  ELSE IF Head(s) \in whitespace THEN strip(Tail(s))
  ELSE IF s[Len(s)] \in whitespace THEN strip(SubSeq(s, 1, Len(s) - 1))
  ELSE s

\* the integer a run of digits denotes
RECURSIVE int(_)
int(ds) ==
  IF ds = <<>> THEN 0
  ELSE int(SubSeq(ds, 1, Len(ds) - 1)) * 10
         + (CHOOSE n \in 0..9 : digits[n + 1] = ds[Len(ds)])

\* float() of a numeral \d+(\.\d+)? with at most two decimals, in hundredths
float(value) ==
  IF \E d \in DOMAIN value : value[d] = "."
  THEN LET d == CHOOSE d \in DOMAIN value : value[d] = "."
           decimals == SubSeq(value, d + 1, Len(value))
       IN  int(SubSeq(value, 1, d - 1)) * 100
             + (IF Len(decimals) = 1 THEN int(decimals) * 10 ELSE int(decimals))
  ELSE int(value) * 100

chr(set) == [t |-> "chr", set |-> set]
seq(of) == [t |-> "seq", of |-> of]
alt(of) == [t |-> "alt", of |-> of]
opt(of) == [t |-> "opt", of |-> of]
star(of) == [t |-> "star", of |-> of]
grp(of) == [t |-> "grp", of |-> of]
plus(of) == seq(<<of, star(of)>>)
lit(w) == seq([k \in DOMAIN w |-> chr({w[k]})])

\* \d+(?:\.\d+)?
number ==
  seq(<<plus(chr({digits[k] : k \in DOMAIN digits})),
        opt(seq(<<chr({"."}), plus(chr({digits[k] : k \in DOMAIN digits}))>>))>>)

\* \s*
spaces == star(chr(whitespace))

\* [:\s]+
separators == plus(chr({":"} \cup whitespace))

\* the matcher under re.IGNORECASE: a character matches a class of lower-case
\* characters when its lower case is in the class; alternatives are tried in
\* the order written, a repetition tries the longer match first
RECURSIVE rx(_, _, _), rx_each(_, _, _)
rx(node, text, th) ==
  CASE node.t = "chr" ->
         IF th.pos <= Len(text) /\ lower(<<text[th.pos]>>)[1] \in node.set
         THEN <<[th EXCEPT !.pos = @ + 1]>> ELSE <<>>
    [] node.t = "seq" ->
         IF node.of = <<>> THEN <<th>>
         ELSE rx_each(seq(Tail(node.of)), text, rx(Head(node.of), text, th))
    [] node.t = "alt" ->
         IF node.of = <<>> THEN <<>>
         ELSE rx(Head(node.of), text, th) \o rx(alt(Tail(node.of)), text, th)
    [] node.t = "opt" -> rx(node.of, text, th) \o <<th>>
    [] node.t = "star" -> rx_each(node, text, rx(node.of, text, th)) \o <<th>>
    [] node.t = "grp" ->
         LET ends == rx(node.of, text, th)
         IN  [k \in DOMAIN ends |->
                [ends[k] EXCEPT !.caps = @ \o <<SubSeq(text, th.pos, ends[k].pos - 1)>>]]

rx_each(node, text, ths) ==
  IF ths = <<>> THEN <<>>
  ELSE rx(node, text, Head(ths)) \o rx_each(node, text, Tail(ths))

\* re.findall from position p: the groups of the non-overlapping matches,
\* leftmost first
RECURSIVE findall_from(_, _, _)
findall_from(pattern, text, p) ==
  LET at(q) == rx(pattern, text, [pos |-> q, caps |-> <<>>])
      starts == {q \in p..Len(text) : at(q) # <<>>}
  IN  IF starts = {} THEN <<>>
      ELSE LET q == CHOOSE q \in starts : \A o \in starts : q <= o
               m == at(q)[1]
           IN  <<m.caps>> \o findall_from(pattern, text, IF m.pos > q THEN m.pos ELSE q + 1)

findall(pattern, text) == findall_from(pattern, text, 1)

\* AIService.quantity_patterns
quantity_patterns == <<
     seq(<<grp(number), spaces,
           grp(alt(<<lit(<<"k", "m">>),
                   lit(<<"k", "i", "l", "o", "m", "e", "t", "e", "r">>),
                   lit(<<"m", "e", "t", "r", "e">>),
                   lit(<<"m", "e", "t", "e", "r">>),
                   lit(<<"m">>),
                   lit(<<"s", "q", "m">>),
                   seq(<<lit(<<"s", "q", "u", "a", "r", "e">>), spaces, lit(<<"m", "e", "t", "e", "r">>)>>),
                   seq(<<lit(<<"c", "u", "b", "i", "c">>), spaces, lit(<<"m", "e", "t", "e", "r">>)>>),
                   lit(<<"c", "u", "m">>),
                   lit(<<"t", "o", "n">>),
                   lit(<<"t", "o", "n", "n", "e">>),
                   seq(<<lit(<<"n", "o">>), opt(chr({"s"})), opt(chr({"."}))>>),
                   lit(<<"n", "u", "m", "b", "e", "r">>),
                   lit(<<"u", "n", "i", "t">>),
                   lit(<<"s", "e", "t">>)>>))>>),
     seq(<<grp(number), spaces, chr({"x"}), spaces, grp(number), spaces,
           grp(alt(<<lit(<<"m">>),
                   lit(<<"m", "e", "t", "e", "r">>),
                   lit(<<"m", "e", "t", "r", "e">>)>>))>>),
     seq(<<lit(<<"l", "e", "n", "g", "t", "h">>), separators, grp(number), spaces,
           grp(alt(<<lit(<<"m">>),
                   lit(<<"m", "e", "t", "e", "r">>),
                   lit(<<"m", "e", "t", "r", "e">>),
                   lit(<<"k", "m">>)>>))>>),
     seq(<<lit(<<"w", "i", "d", "t", "h">>), separators, grp(number), spaces,
           grp(alt(<<lit(<<"m">>),
                   lit(<<"m", "e", "t", "e", "r">>),
                   lit(<<"m", "e", "t", "r", "e">>)>>))>>),
     seq(<<lit(<<"h", "e", "i", "g", "h", "t">>), separators, grp(number), spaces,
           grp(alt(<<lit(<<"m">>),
                   lit(<<"m", "e", "t", "e", "r">>),
                   lit(<<"m", "e", "t", "r", "e">>)>>))>>),
     seq(<<lit(<<"a", "r", "e", "a">>), separators, grp(number), spaces,
           grp(alt(<<lit(<<"s", "q", "m">>),
                   seq(<<lit(<<"s", "q", "u", "a", "r", "e">>), spaces, lit(<<"m", "e", "t", "e", "r">>)>>)>>))>>),
     seq(<<lit(<<"v", "o", "l", "u", "m", "e">>), separators, grp(number), spaces,
           grp(alt(<<lit(<<"c", "u", "m">>),
                   seq(<<lit(<<"c", "u", "b", "i", "c">>), spaces, lit(<<"m", "e", "t", "e", "r">>)>>)>>))>>) >>

\* the quantity of one match
quantity_of(match) ==
  IF Len(match) = 2
  THEN [value |-> float(match[1]) * 100,
        unit |-> strip(lower(match[2])),
        raw_text |-> match[1] \o <<" ">> \o match[2]]
  ELSE [value |-> float(match[1]) * float(match[2]),
        unit |-> strip(lower(match[3])),
        raw_text |-> match[1] \o <<" ", "x", " ">> \o match[2] \o <<" ">> \o match[3],
        dimensions |-> <<float(match[1]), float(match[2])>>]

\* AIService._extract_quantities on the characters of text
extract_quantities_from(text) ==
  LET of_pattern(p) ==
        LET matches == findall(quantity_patterns[p], text)
        IN  [k \in DOMAIN matches |-> quantity_of(matches[k])]
  IN  Concat([p \in DOMAIN quantity_patterns |-> of_pattern(p)])

-----------------------------------------------------------------------------
(* Reading a sentence from its characters: what the matchers of AIService  *)
(* find in it.  The entity recogniser is the language model's; it is taken *)
(* as finding no GPE/LOC/FAC entity in the sentences read here.            *)

\* the vocabulary and the category keywords, spelled
KeywordSpelling ==
     "guardrail" :> <<"g","u","a","r","d","r","a","i","l">>
  @@ "crash barrier" :> <<"c","r","a","s","h"," ","b","a","r","r","i","e","r">>
  @@ "rumble strip" :> <<"r","u","m","b","l","e"," ","s","t","r","i","p">>
  @@ "speed bump" :> <<"s","p","e","e","d"," ","b","u","m","p">>
  @@ "traffic sign" :> <<"t","r","a","f","f","i","c"," ","s","i","g","n">>
  @@ "road marking" :> <<"r","o","a","d"," ","m","a","r","k","i","n","g">>
  @@ "pedestrian crossing" :> <<"p","e","d","e","s","t","r","i","a","n"," ","c","r","o","s","s","i","n","g">>
  @@ "footpath" :> <<"f","o","o","t","p","a","t","h">>
  @@ "footway" :> <<"f","o","o","t","w","a","y">>
  @@ "sidewalk" :> <<"s","i","d","e","w","a","l","k">>
  @@ "street light" :> <<"s","t","r","e","e","t"," ","l","i","g","h","t">>
  @@ "road light" :> <<"r","o","a","d"," ","l","i","g","h","t">>
  @@ "illumination" :> <<"i","l","l","u","m","i","n","a","t","i","o","n">>
  @@ "delineator" :> <<"d","e","l","i","n","e","a","t","o","r">>
  @@ "chevron" :> <<"c","h","e","v","r","o","n">>
  @@ "road hump" :> <<"r","o","a","d"," ","h","u","m","p">>
  @@ "speed table" :> <<"s","p","e","e","d"," ","t","a","b","l","e">>
  @@ "roundabout" :> <<"r","o","u","n","d","a","b","o","u","t">>
  @@ "junction improvement" :> <<"j","u","n","c","t","i","o","n"," ","i","m","p","r","o","v","e","m","e","n","t">>
  @@ "median" :> <<"m","e","d","i","a","n">>
  @@ "divider" :> <<"d","i","v","i","d","e","r">>
  @@ "kerb" :> <<"k","e","r","b">>
  @@ "pavement" :> <<"p","a","v","e","m","e","n","t">>
  @@ "shoulder" :> <<"s","h","o","u","l","d","e","r">>
  @@ "verge" :> <<"v","e","r","g","e">>
  @@ "drainage" :> <<"d","r","a","i","n","a","g","e">>
  @@ "culvert" :> <<"c","u","l","v","e","r","t">>
  @@ "catch pit" :> <<"c","a","t","c","h"," ","p","i","t">>
  @@ "gutter" :> <<"g","u","t","t","e","r">>
  @@ "safety barrier" :> <<"s","a","f","e","t","y"," ","b","a","r","r","i","e","r">>
  @@ "parapet" :> <<"p","a","r","a","p","e","t">>
  @@ "railing" :> <<"r","a","i","l","i","n","g">>
  @@ "fence" :> <<"f","e","n","c","e">>
  @@ "cattle guard" :> <<"c","a","t","t","l","e"," ","g","u","a","r","d">>
  @@ "road stud" :> <<"r","o","a","d"," ","s","t","u","d">>
  @@ "cat eye" :> <<"c","a","t"," ","e","y","e">>
  @@ "reflector" :> <<"r","e","f","l","e","c","t","o","r">>
  @@ "signage" :> <<"s","i","g","n","a","g","e">>
  @@ "information board" :> <<"i","n","f","o","r","m","a","t","i","o","n"," ","b","o","a","r","d">>
  @@ "milestone" :> <<"m","i","l","e","s","t","o","n","e">>
  @@ "km stone" :> <<"k","m"," ","s","t","o","n","e">>
  @@ "warning sign" :> <<"w","a","r","n","i","n","g"," ","s","i","g","n">>
  @@ "mandatory sign" :> <<"m","a","n","d","a","t","o","r","y"," ","s","i","g","n">>
  @@ "regulatory sign" :> <<"r","e","g","u","l","a","t","o","r","y"," ","s","i","g","n">>
  @@ "guide sign" :> <<"g","u","i","d","e"," ","s","i","g","n">>
  @@ "pavement marking" :> <<"p","a","v","e","m","e","n","t"," ","m","a","r","k","i","n","g">>
  @@ "line marking" :> <<"l","i","n","e"," ","m","a","r","k","i","n","g">>
  @@ "zebra crossing" :> <<"z","e","b","r","a"," ","c","r","o","s","s","i","n","g">>
  @@ "lighting" :> <<"l","i","g","h","t","i","n","g">>
  @@ "junction" :> <<"j","u","n","c","t","i","o","n">>
  @@ "intersection" :> <<"i","n","t","e","r","s","e","c","t","i","o","n">>

\* the units the quantity patterns can capture, spelled
UnitSpelling ==
     "km" :> <<"k","m">>
  @@ "kilometer" :> <<"k","i","l","o","m","e","t","e","r">>
  @@ "metre" :> <<"m","e","t","r","e">>
  @@ "meter" :> <<"m","e","t","e","r">>
  @@ "m" :> <<"m">>
  @@ "sqm" :> <<"s","q","m">>
  @@ "square meter" :> <<"s","q","u","a","r","e"," ","m","e","t","e","r">>
  @@ "cubic meter" :> <<"c","u","b","i","c"," ","m","e","t","e","r">>
  @@ "cum" :> <<"c","u","m">>
  @@ "ton" :> <<"t","o","n">>
  @@ "tonne" :> <<"t","o","n","n","e">>
  @@ "no" :> <<"n","o">>
  @@ "nos" :> <<"n","o","s">>
  @@ "no." :> <<"n","o",".">>
  @@ "nos." :> <<"n","o","s",".">>
  @@ "number" :> <<"n","u","m","b","e","r">>
  @@ "unit" :> <<"u","n","i","t">>
  @@ "set" :> <<"s","e","t">>

unit_name(unit) == CHOOSE u \in DOMAIN UnitSpelling : UnitSpelling[u] = unit

\* len(sentence.split())
words_of(sentence) ==
  Cardinality({i \in DOMAIN sentence :
                 /\ sentence[i] \notin whitespace
                 /\ (i = 1 \/ sentence[i - 1] \in whitespace)})

\* kw in sentence.lower(), for the keywords of the vocabulary and of the
\* categories
phrases_of(sentence) ==
  {kw \in DOMAIN KeywordSpelling : StrIn(KeywordSpelling[kw], lower(sentence))}

\* (?:km|chainage|ch\.?)[:\s]*(\d+(?:\.\d+)?)[+\s]*(\d+)?
chainage_pattern ==
  seq(<<alt(<<lit(<<"k", "m">>),
              lit(<<"c", "h", "a", "i", "n", "a", "g", "e">>),
              seq(<<lit(<<"c", "h">>), opt(chr({"."}))>>)>>),
        star(chr({":"} \cup whitespace)),
        grp(number),
        star(chr({"+"} \cup whitespace)),
        opt(grp(plus(chr({digits[k] : k \in DOMAIN digits}))))>>)

\* the chainage without the metres after the kilometre
chainage_km_only(sentence) ==
  LET chainages == findall(chainage_pattern, lower(sentence))
  IN  IF chainages = <<>> THEN "None" ELSE <<"K", "m", " ">> \o chainages[1][1]

\* chainage_str of _extract_intervention_details, as its characters
chainage_of(sentence) ==
  LET chainages == findall(chainage_pattern, lower(sentence))
  IN  IF chainages = <<>> THEN "None"
      ELSE LET km == chainages[1][1]
               metres == IF Len(chainages[1]) > 1 THEN chainages[1][2] ELSE <<>>
           IN  <<"K", "m", " ">> \o km
                 \o (IF metres # <<>> THEN <<"+">> \o metres ELSE <<>>)

\* the quantity matches of a sentence with the pattern that found each; the
\* value in whole units
quantity_matches(sentence) ==
  LET of_pattern(p) ==
        LET matches == findall(quantity_patterns[p], sentence)
        IN  [k \in DOMAIN matches |->
               [pat |-> p, value |-> quantity_of(matches[k]).value \div 10000,
                unit |-> unit_name(quantity_of(matches[k]).unit)]]
  IN  Concat([p \in DOMAIN quantity_patterns |-> of_pattern(p)])

read_sentence(name, sentence) ==
  [text |-> name, words |-> words_of(sentence), phrases |-> phrases_of(sentence),
   locs |-> <<>>, chainage |-> chainage_of(sentence),
   qm |-> quantity_matches(sentence)]

\* "A steel crash barrier of 150 m was installed at Km 12+300 near the village school, IRC 35 compliant."
BarrierSentence == <<
     "A"," ","s","t","e","e","l"," ","c","r","a","s","h"," ","b","a",
     "r","r","i","e","r"," ","o","f"," ","1","5","0"," ","m"," ","w",
     "a","s"," ","i","n","s","t","a","l","l","e","d"," ","a","t"," ",
     "K","m"," ","1","2","+","3","0","0"," ","n","e","a","r"," ","t",
     "h","e"," ","v","i","l","l","a","g","e"," ","s","c","h","o","o",
     "l",","," ","I","R","C"," ","3","5"," ","c","o","m","p","l","i",
     "a","n","t","." >>

\* "The damaged guardrail near the school shall be replaced."
GuardrailSentence == <<
     "T","h","e"," ","d","a","m","a","g","e","d"," ","g","u","a","r",
     "d","r","a","i","l"," ","n","e","a","r"," ","t","h","e"," ","s",
     "c","h","o","o","l"," ","s","h","a","l","l"," ","b","e"," ","r",
     "e","p","l","a","c","e","d","." >>

\* "The median opening shall be closed."
MedianSentence == <<
     "T","h","e"," ","m","e","d","i","a","n"," ","o","p","e","n","i",
     "n","g"," ","s","h","a","l","l"," ","b","e"," ","c","l","o","s",
     "e","d","." >>

-----------------------------------------------------------------------------
(* Inputs *)

\* the text of one sentence about a crash barrier
BarrierText ==
  [len |-> Len(strip(BarrierSentence)),
   sents |-> << read_sentence("steel crash barrier of 150 m at Km 12+300", BarrierSentence) >>]

\* a text of two sentences without a quantity
GuardrailText ==
  [len |-> Len(strip(GuardrailSentence \o <<" ">> \o MedianSentence)),
   sents |-> << read_sentence("damaged guardrail near the school", GuardrailSentence),
                read_sentence("median opening", MedianSentence) >>]

Plain == [text |-> "works are in progress", words |-> 4, phrases |-> {},
          locs |-> <<>>, chainage |-> "None", qm |-> <<>>]

\* The uploaded files, by what DocumentExtractor.extract_text yields for them
\* (len is len(text.strip())); file 0 is one extract_text raises on.
Texts == <<
  [len |-> 0, sents |-> <<>>],
  [len |-> 49, sents |-> << [Plain EXCEPT !.phrases = {"guardrail"}] >>],
  [len |-> 50, sents |-> << Plain, [Plain EXCEPT !.locs = <<"NH-48">>] >>],
  [len |-> 120, sents |->
     << [text |-> "crash barrier at Km 12+300 over 150 m", words |-> 8,
         phrases |-> {"crash barrier"}, locs |-> <<>>, chainage |-> "Km 12+300",
         qm |-> << [pat |-> 1, value |-> 150, unit |-> "m"] >>],
        [text |-> "guardrail along the median at Km 13", words |-> 7,
         phrases |-> {"guardrail", "median"}, locs |-> <<>>, chainage |-> "Km 13",
         qm |-> <<>>] >>],
  BarrierText,
  GuardrailText >>

Files == 0..Len(Texts)
Docs == 1..MaxDocs

\* The requests of the pricing specification
PRequests == {
  [material_name |-> "Steel Crash Barrier", quantity |-> 150, unit |-> "m"],
  [material_name |-> "Paint", quantity |-> 1, unit |-> "kg"],
  [material_name |-> "crash barrier", quantity |-> 150, unit |-> "m"],
  [material_name |-> "General Safety Intervention", quantity |-> 2, unit |-> "nos"] }

-----------------------------------------------------------------------------
(* Standards retrieval (RAGService).  A distance and a relevance score are *)
(* in hundredths.  A string built from parts is the sequence of its parts. *)

MaxRank == 4          \* length of the ranked list the index holds for a query
DefaultTopK == 3      \* top_k: int = 3

\* the corpus of _load_irc_standards: code, title, description, clause
\* numbers in order
irc_standards == <<
  [code |-> "IRC 35", title |-> "Code of Practice for Road Markings",
   description |->
     "Covers specifications for road markings including pavement markings, object markers, delineators, and hazard markers. Specifies materials, colors, dimensions, and retroreflectivity requirements.",
   clauses |-> <<"4.1", "4.2", "5.1", "5.2", "6.1", "7.1">>],
  [code |-> "IRC 67", title |-> "Code of Practice for Road Signs",
   description |->
     "Guidelines for design, placement, and specifications of road traffic signs including regulatory, warning, and informatory signs. Covers materials, reflectivity, and mounting requirements.",
   clauses |-> <<"4.1", "4.2", "4.3", "5.1", "6.1", "7.1">>],
  [code |-> "IRC 99",
   title |-> "Tentative Guidelines on the Provision of Facilities for Pedestrians",
   description |->
     "Guidelines for pedestrian infrastructure including footpaths, crossings, overpasses, underpasses, and pedestrian safety measures.",
   clauses |-> <<"5.1", "5.2", "6.1", "6.2", "7.1", "8.1">>],
  [code |-> "IRC SP:84", title |-> "Manual for Road Safety Audits",
   description |->
     "Comprehensive manual for conducting road safety audits at all stages of road projects. Covers audit procedures, safety checkpoints, and intervention recommendations.",
   clauses |-> <<"4.1", "4.2", "5.1", "6.1", "7.1", "8.1">>],
  [code |-> "IRC SP:87",
   title |-> "Manual of Specifications and Standards for Four Laning of Highways",
   description |->
     "Standards for widening and upgrading highways to four lanes, including safety features, barriers, medians, and auxiliary facilities.",
   clauses |-> <<"8.1", "8.2", "9.1", "10.1", "11.1", "12.1">>],
  [code |-> "IRC 19",
   title |-> "Geometric Design Standards for Rural (Non-Urban) Highways",
   description |->
     "Standards for geometric design including alignment, cross-section, sight distance, and safety features for rural highways.",
   clauses |-> <<"7.1", "7.2", "8.1", "9.1", "10.1">>],
  [code |-> "IRC 103", title |-> "Guidelines for Pedestrian Facilities",
   description |->
     "Detailed guidelines for providing safe pedestrian facilities including walkways, crossings, and grade-separated facilities.",
   clauses |-> <<"4.1", "5.1", "6.1", "7.1">>],
  [code |-> "IRC 11",
   title |-> "Recommended Practice for the Design of At-Grade Extra-Urban Intersections",
   description |->
     "Design guidelines for intersections including channelization, traffic islands, and safety measures.",
   clauses |-> <<"5.1", "6.1", "7.1", "8.1">>] >>

\* ids.append(std['code'])
standard_id(code) == <<code>>

\* ids.append(f"{std['code']}_clause_{clause_num}")
clause_id(code, clause_num) == <<code, "_clause_", clause_num>>

\* the metadata of a whole-standard document has no 'clause' key
standard_doc(std) ==
  [id |-> standard_id(std.code), code |-> std.code, clause |-> "None", type |-> "standard"]

clause_doc(std, clause_num) ==
  [id |-> clause_id(std.code, clause_num), code |-> std.code,
   clause |-> clause_num, type |-> "clause"]

\* the documents _load_irc_standards passes to collection.add, in order
corpus_docs ==
  Concat([k \in 1..Len(irc_standards) |->
            <<standard_doc(irc_standards[k])>> \o
            [j \in 1..Len(irc_standards[k].clauses) |->
               clause_doc(irc_standards[k], irc_standards[k].clauses[j])]])

\* self.irc_standards_db after _load_irc_standards: the record of each code
loaded_standards_db ==
  {[code |-> irc_standards[k].code, title |-> irc_standards[k].title,
    description |-> irc_standards[k].description] :
     k \in 1..Len(irc_standards)}

\* the collection: exists is FALSE while no collection of the name exists
NoIndex == [exists |-> FALSE, docs |-> <<>>]

\* RAGService.__init__: no client, no collection, an empty irc_standards_db;
\* up is FALSE while no process is running; mem is the client's copy of the
\* index, written to the persist directory by persist()
NoService == [up |-> FALSE, collection |-> FALSE, irc_standards_db |-> {}, mem |-> NoIndex]

\* _load_irc_standards on the collection just created: one collection.add
load_irc_standards(index) ==
  [up |-> TRUE, collection |-> TRUE, irc_standards_db |-> loaded_standards_db,
   mem |-> [exists |-> TRUE, docs |-> index.docs \o corpus_docs]]

\* n_results=top_k * 2
n_results(top_k) == top_k * 2

\* 'relevance_score': 1.0 - min(distance, 1.0)
relevance_score(distance) == 100 - (IF distance < 100 THEN distance ELSE 100)

\* self.collection.query(query_texts=[query], n_results=n): the n nearest
\* documents of the index in rank order.  It raises when there is no
\* collection object, when the index holds fewer than n documents, or on a
\* fault of the index.
collection_query(svc, ranking, n, fault) ==
  IF ~svc.collection \/ fault \/ Len(svc.mem.docs) < n
  THEN [raised |-> TRUE, hits |-> <<>>]
  ELSE [raised |-> FALSE, hits |-> SubSeq(ranking, 1, n)]

\* standard_info.get('title', '') for standard_info = irc_standards_db.get(code, {})
title_of(svc, code) ==
  IF \E s \in svc.irc_standards_db : s.code = code
  THEN (CHOOSE s \in svc.irc_standards_db : s.code = code).title
  ELSE ""

\* standard_info.get('description', '')
description_of(svc, code) ==
  IF \E s \in svc.irc_standards_db : s.code = code
  THEN (CHOOSE s \in svc.irc_standards_db : s.code = code).description
  ELSE ""

\* the entry appended for a hit
standard_entry(svc, hit) ==
  [code |-> hit.code, title |-> title_of(svc, hit.code),
   description |-> description_of(svc, hit.code),
   relevance_score |-> relevance_score(hit.distance),
   matched_clause |-> hit.clause]

\* the loop over the hits with the test on seen_codes left out
RECURSIVE collect_every_hit(_, _, _, _, _)
collect_every_hit(hits, seen_codes, relevant_standards, top_k, svc) ==
  IF hits = <<>> THEN relevant_standards
  ELSE LET acc == Append(relevant_standards, standard_entry(svc, Head(hits)))
       IN  IF Len(acc) >= top_k THEN acc
           ELSE collect_every_hit(Tail(hits), seen_codes, acc, top_k, svc)

\* the loop over results['ids'][0]: a hit whose code is new is appended, the
\* loop breaks once top_k entries are collected
RECURSIVE collect_standards(_, _, _, _, _)
collect_standards(hits, seen_codes, relevant_standards, top_k, svc) ==
  IF hits = <<>> THEN relevant_standards
  ELSE LET code == Head(hits).code
       IN  IF code # "None" /\ code \notin seen_codes
           THEN LET acc == Append(relevant_standards, standard_entry(svc, Head(hits)))
                IN  IF Len(acc) >= top_k THEN acc
                    ELSE collect_standards(Tail(hits), seen_codes \cup {code}, acc, top_k, svc)
           ELSE collect_standards(Tail(hits), seen_codes, relevant_standards, top_k, svc)

\* query = ' '.join([p for p in query_parts if p]).strip() is empty
query_empty(intervention) ==
  /\ intervention.intervention_type = ""
  /\ intervention.description = ""
  /\ intervention.keywords_matched = <<>>

\* a variant whose except branch returns what the ranking would have given
find_relevant_standards_on_raise(intervention, top_k, svc, ranking, fault) ==
  LET res == collection_query(svc, ranking, n_results(top_k), fault)
  IN  [queried |-> TRUE, n_results |-> n_results(top_k), raised |-> res.raised,
       hits |-> res.hits,
       standards |-> collect_standards(SubSeq(ranking, 1, n_results(top_k)), {}, <<>>, top_k, svc)]

\* RAGService.find_relevant_standards.  standards is the returned list; the
\* other fields tell whether the index was queried, for how many hits, what
\* it returned and whether the try block raised.
find_relevant_standards(intervention, top_k, svc, ranking, fault) ==
  IF query_empty(intervention)
  THEN [queried |-> FALSE, n_results |-> 0, raised |-> FALSE, hits |-> <<>>,
        standards |-> <<>>]
  ELSE LET res == collection_query(svc, ranking, n_results(top_k), fault)
       IN  [queried |-> TRUE, n_results |-> n_results(top_k), raised |-> res.raised,
            hits |-> res.hits,
            standards |-> IF res.raised THEN <<>>
                          ELSE collect_standards(res.hits, {}, <<>>, top_k, svc)]

\* irc_codes = [std['code'] for std in irc_standards]
irc_codes(irc) == [k \in 1..Len(irc) |-> irc[k].code]

\* irc_clauses: f"{std['code']} - Clause {std['matched_clause']}" for the
\* entries with a matched clause
irc_clauses(irc) ==
  LET with_clause == SelectSeq(irc, LAMBDA std : std.matched_clause # "None")
  IN  [k \in 1..Len(with_clause) |->
         <<with_clause[k].code, " - Clause ", with_clause[k].matched_clause>>]

-----------------------------------------------------------------------------
(* The durable store and the session *)

NoStaged == [analyses |-> {}, analysis_update |-> {}, interventions |-> {}, cost_items |-> {}]

\* a commit that writes the new rows and leaves out the UPDATE of a row
commit_analyses_without_update == analyses \cup staged.analyses

\* Session.commit() of the staged rows: the tables after it
commit_analyses ==
  {a \in analyses : \A n \in staged.analysis_update : n.id # a.id}
  \cup {n \in staged.analysis_update : \E a \in analyses : a.id = n.id}
  \cup staged.analyses
commit_interventions == interventions \cup staged.interventions
commit_cost_items == cost_items \cup staged.cost_items

\* DocumentService.update_status (error "" stands for None)
update_status(document_id, status, error) ==
  [documents EXCEPT ![document_id] =
     [@ EXCEPT !.status = status,
               !.processing_error = IF error # "" THEN error ELSE @]]

Idle == [pc |-> "idle", doc |-> 0, no |-> 0, stage |-> "NONE", from |-> "NONE",
         raised |-> FALSE,
         error |-> "", calls |-> {}, text |-> 0, ivs |-> <<>>, idx |-> 0,
         iv_id |-> <<0, 0>>, materials |-> <<>>, mi |-> 0,
         total_cost |-> 0, assumptions |-> <<>>, warnings |-> <<>>,
         cd_total |-> 0, cd_assumptions |-> <<>>, cd_warnings |-> <<>>,
         prices |-> <<>>, rag_raised |-> FALSE, faults |-> 0]

\* no call of find_relevant_standards yet
NoReq == [intervention |-> [intervention_type |-> "", description |-> "",
                            keywords_matched |-> <<>>],
          top_k |-> 0, ranking |-> <<>>]

NoFound == [called |-> FALSE, queried |-> FALSE, n_results |-> 0, raised |-> FALSE,
            hits |-> <<>>, standards |-> <<>>]

\* no call of a function of AIService yet
NoInput == [op |-> "none"]
NoOutput == [op |-> "none"]

\* no concurrent call yet, nothing written
NoLookups == [p \in 1..MaxLookups |->
                [pc |-> "idle", up |-> FALSE, snap |-> NoEntry, read |-> {}]]
NoWrites == [whole |-> {}, fast |-> {}]

\* a worker process with no background task, and the server after it started
NoTask == [pc |-> "idle", doc |-> 0]
NoTasks == [w \in 1..MaxWorkers |-> NoTask]

NoCall == [material_name |-> "", quantity |-> 0, unit |-> "",
           ret |-> [kind |-> "none"], trace |-> <<>>, tier |-> "none",
           fast_error |-> FALSE, writes |-> <<>>, write_failed |-> {}]

Init ==
  /\ now = 0
  /\ redis = {}
  /\ redis_client = FALSE
  /\ price_cache = {}
  /\ sess_broken = FALSE
  /\ last = NoCall
  /\ documents = [d \in Docs |-> [status |-> "absent", processing_error |-> "", file |-> 0]]
  /\ analyses = {}
  /\ interventions = {}
  /\ cost_items = {}
  /\ staged = NoStaged
  /\ queue = <<>>
  /\ run = Idle
  /\ chroma = NoIndex
  /\ rag_service = NoService
  /\ rag_req = NoReq
  /\ rag_found = NoFound
  /\ ai_in = NoInput
  /\ ai_out = NoOutput
  /\ lookups = NoLookups
  /\ workers = NoTasks
  /\ writes = NoWrites

\* the record of one call of get_material_price
call_record(material_name, quantity, unit, f, r) ==
  [material_name |-> material_name, quantity |-> quantity,
   unit |-> unit, ret |-> r.ret, trace |-> r.trace, tier |-> r.tier,
   fast_error |-> redis_client /\ f.rget,
   writes |-> r.writes, write_failed |-> r.write_failed]

-----------------------------------------------------------------------------
(* The clock, in days.  Redis drops an entry when its TTL has run out.  A   *)
(* run is over within the day it started, so the clock is an action of the *)
(* pricing specification only: a later run meets caches that are live or   *)
(* expired, which it also meets on the day of the first run (live after a  *)
(* write, missing after a failed one).                                     *)

TimePoints ==
  {a * REDIS_CACHE_TTL + b * ValidDays : a, b \in {x \in 0..MaxTicks : TRUE}}
  \cap {t \in 0..(MaxTicks * ValidDays) :
          \E a, b \in 0..MaxTicks : a + b <= MaxTicks /\ t = a * REDIS_CACHE_TTL + b * ValidDays}

Tick ==
  /\ run.pc \in {"idle", "done"}
  /\ \E d \in {REDIS_CACHE_TTL, ValidDays} :
       /\ now + d \in TimePoints
       /\ now' = now + d
  /\ redis' = {r \in redis : now' < r.expires_at}
  /\ UNCHANGED <<redis_client, price_cache, sess_broken, last>>
  /\ UNCHANGED storeVars
  /\ UNCHANGED <<ragVars, aiVars, lookupVars, workerVars>>

-----------------------------------------------------------------------------
(* The pricing service on its own: any caller, any request *)

\* PricingService.__init__ on a fresh session: the client is kept only if
\* redis.from_url(...).ping() succeeds
NewPricingService ==
  /\ \E up \in BOOLEAN : redis_client' = up
  /\ sess_broken' = FALSE
  /\ UNCHANGED <<now, redis, price_cache, last>>
  /\ UNCHANGED storeVars
  /\ UNCHANGED <<ragVars, aiVars, lookupVars, workerVars>>

\* one call of get_material_price for the request q
LookupOf(q) ==
  \E f \in Faults :
    \E e \in durable_first(q.material_name, q.unit) :
      LET material_name == q.material_name
          quantity == q.quantity
          unit == q.unit
          r == get_material_price(material_name, quantity, unit, f, e)
      IN  /\ (IF e.id = 0 THEN TRUE ELSE e.cache_hits < MaxHits)
          /\ redis' = r.redis
          /\ price_cache' = r.price_cache
          /\ sess_broken' = FALSE      \* the caller rolls back when the call raised
          /\ last' = call_record(material_name, quantity, unit, f, r)
          /\ UNCHANGED <<now, redis_client>>
          /\ UNCHANGED storeVars
          /\ UNCHANGED <<ragVars, aiVars, lookupVars, workerVars>>

Lookup == \E q \in PRequests : LookupOf(q)

NextPricing == NewPricingService \/ Lookup \/ Tick

\* The pricing service starts on a store in which an earlier run has cached
\* another material.
OtherRow ==
  [id |-> 1, material_name |-> "Guardrail Post", unit |-> "nos", unit_rate |-> 850,
   source |-> "CPWD_SOR", source_reference |-> "CPWD-SOR-2023-12.47",
   valid_from |-> 0, valid_until |-> ValidDays, fetched_at |-> 0,
   cache_hits |-> 0, last_accessed |-> 0, updated_at |-> 0]

InitPricing ==
  /\ now = 0
  /\ redis = {}
  /\ redis_client = FALSE
  /\ price_cache = {OtherRow}
  /\ sess_broken = FALSE
  /\ last = NoCall
  /\ documents = [d \in Docs |-> [status |-> "absent", processing_error |-> "", file |-> 0]]
  /\ analyses = {}
  /\ interventions = {}
  /\ cost_items = {}
  /\ staged = NoStaged
  /\ queue = <<>>
  /\ run = Idle
  /\ chroma = NoIndex
  /\ rag_service = NoService
  /\ rag_req = NoReq
  /\ rag_found = NoFound
  /\ ai_in = NoInput
  /\ ai_out = NoOutput
  /\ lookups = NoLookups
  /\ workers = NoTasks
  /\ writes = NoWrites

SpecPricing == InitPricing /\ [][NextPricing]_vars

-----------------------------------------------------------------------------
(* The durable query over a store that earlier lookups have filled.  Rows   *)
(* of one (material, unit) pair pile up: a lookup after the expiry adds a   *)
(* row and leaves the expired one, and lookups that miss together each add  *)
(* one.  The lookups below start at StartDay on such a store.               *)

MaxRows == 3    \* rows of the pair in the store a lookup starts on

\* the pair whose rows and concurrent lookups are followed
SharedName == "Steel Crash Barrier"
SharedUnit == "m"

StartDay == ValidDays + 1

\* fetch days of rows expired at StartDay (the second one on the very day
\* its validity ends) and of rows still valid
FetchDays == {0, StartDay - ValidDays, StartDay - ValidDays + 1, StartDay - 1}

\* the row _cache_price added on the day fetched, as the table's id-th row
stored_row(id, fetched) ==
  [id |-> id, material_name |-> SharedName, unit |-> SharedUnit,
   unit_rate |-> material_database[database_get(SharedName)].typical_rate,
   source |-> "CPWD_SOR",
   source_reference |-> material_database[database_get(SharedName)].cpwd_code,
   valid_from |-> fetched, valid_until |-> fetched + ValidDays, fetched_at |-> fetched,
   cache_hits |-> 0, last_accessed |-> fetched, updated_at |-> fetched]

\* the stores: up to MaxRows rows, added in the order of their fetch days
Stores ==
  UNION {{{stored_row(i, days[i]) : i \in 1..n} :
            days \in {d \in [1..n -> FetchDays] : \A i \in 1..(n - 1) : d[i] <= d[i + 1]}} :
           n \in 0..MaxRows}

\* the lookups ask for the pair, for one quantity or another
StoredRequests ==
  {[material_name |-> SharedName, quantity |-> q, unit |-> SharedUnit] : q \in {1, 150}}

LookupStored == \E q \in StoredRequests : LookupOf(q)

NextDurable == NewPricingService \/ LookupStored

InitDurable ==
  /\ now = StartDay
  /\ redis = {}
  /\ redis_client \in BOOLEAN
  /\ price_cache \in Stores
  /\ sess_broken = FALSE
  /\ last = NoCall
  /\ documents = [d \in Docs |-> [status |-> "absent", processing_error |-> "", file |-> 0]]
  /\ analyses = {}
  /\ interventions = {}
  /\ cost_items = {}
  /\ staged = NoStaged
  /\ queue = <<>>
  /\ run = Idle
  /\ chroma = NoIndex
  /\ rag_service = NoService
  /\ rag_req = NoReq
  /\ rag_found = NoFound
  /\ ai_in = NoInput
  /\ ai_out = NoOutput
  /\ lookups = NoLookups
  /\ workers = NoTasks
  /\ writes = NoWrites

SpecDurable == InitDurable /\ [][NextDurable]_vars

-----------------------------------------------------------------------------
(* Concurrent lookups.  Runs on different documents each have a session    *)
(* and a PricingService of their own and share the Redis server and the    *)
(* price_cache table.  A call of get_material_price is a sequence of cache *)
(* operations, each of them one Redis command or one database statement or *)
(* commit, and the operations of concurrent calls interleave.  Each caller *)
(* makes one call, all for the same material and unit; any operation may   *)
(* raise.                                                                  *)

Callers == 1..MaxLookups

\* the entry of a cache layer as a reader sees it
whole_entry(e) ==
  [material_name |-> e.material_name, unit |-> e.unit, unit_rate |-> e.unit_rate,
   source |-> e.source, source_reference |-> e.source_reference,
   fetched_at |-> e.fetched_at]

\* get_material_price is called on a service whose __init__ kept the Redis
\* client or not
BeginLookup(p) ==
  /\ lookups[p].pc = "idle"
  /\ \E up \in BOOLEAN :
       lookups' = [lookups EXCEPT ![p] = [pc |-> IF up THEN "fast_get" ELSE "query",
                                          up |-> up, snap |-> NoEntry, read |-> {}]]
  /\ UNCHANGED <<pricingVars, storeVars, ragVars, aiVars, writes, workerVars>>

\* self.redis_client.get(cache_key): a value is returned as the result; no
\* value or an exception leads on to the durable cache
FastGet(p) ==
  /\ lookups[p].pc = "fast_get"
  /\ \E fault \in BOOLEAN :
       LET fast == redis_get(SharedName, SharedUnit)
       IN  IF ~fault /\ fast # {}
           THEN \E r \in fast :
                  lookups' = [lookups EXCEPT ![p].pc = "returned", ![p].read = {whole_entry(r)}]
           ELSE lookups' = [lookups EXCEPT ![p].pc = "query"]
  /\ UNCHANGED <<pricingVars, storeVars, ragVars, aiVars, writes, workerVars>>

\* the query of _get_cached_price: the row it returns is loaded into the
\* session; without a row the price is fetched; an exception ends the call
DurableQuery(p) ==
  /\ lookups[p].pc = "query"
  /\ \E fault \in BOOLEAN :
     \E e \in durable_first(SharedName, SharedUnit) :
       lookups' = [lookups EXCEPT
                     ![p].pc = IF fault THEN "returned"
                               ELSE IF e.id # 0 THEN "hit_commit"
                               ELSE IF lookups[p].up THEN "fast_set" ELSE "add",
                     ![p].snap = IF fault THEN NoEntry ELSE e]
  /\ UNCHANGED <<pricingVars, storeVars, ragVars, aiVars, writes, workerVars>>

\* cache_hits += 1, last_accessed = now(), commit(): the UPDATE sets the
\* changed columns of the row, cache_hits from the value that was loaded
hit_commit(snap) ==
  {IF r.id = snap.id
   THEN [r EXCEPT !.cache_hits = hit_update(snap).cache_hits,
                  !.last_accessed = hit_update(snap).last_accessed,
                  !.updated_at = hit_update(snap).updated_at]
   ELSE r : r \in price_cache}

HitCommit(p) ==
  /\ lookups[p].pc = "hit_commit"
  /\ \E fault \in BOOLEAN :
       IF fault
       THEN /\ lookups' = [lookups EXCEPT ![p].pc = "returned"]
            /\ UNCHANGED price_cache
       ELSE /\ price_cache' = hit_commit(lookups[p].snap)
            /\ lookups' = [lookups EXCEPT ![p].pc = "returned",
                                          ![p].read = {whole_entry(lookups[p].snap)}]
  /\ UNCHANGED <<now, redis, redis_client, sess_broken, last>>
  /\ UNCHANGED <<storeVars, ragVars, aiVars, writes, workerVars>>

\* _cache_price, the Redis part: setex of the price _fetch_price_from_sources
\* found; an exception is swallowed
FastSet(p) ==
  /\ lookups[p].pc = "fast_set"
  /\ \E fault \in BOOLEAN :
       LET price_data == fetch_price_from_sources(SharedName, SharedUnit)
           after == redis_setex(SharedName, SharedUnit, price_data)
           set == {r \in after : r.material_name = SharedName /\ r.unit = SharedUnit}
       IN  IF fault
           THEN UNCHANGED <<redis, writes>>
           ELSE /\ redis' = after
                /\ writes' = [whole |-> writes.whole \cup {whole_entry(r) : r \in set},
                              fast |-> set]
  /\ lookups' = [lookups EXCEPT ![p].pc = "add"]
  /\ UNCHANGED <<now, redis_client, price_cache, sess_broken, last>>
  /\ UNCHANGED <<storeVars, ragVars, aiVars, workerVars>>

\* a refreshed price overwrites the newest row of the pair
durable_add_in_place(price_data) ==
  LET rows == {r \in price_cache : r.material_name = SharedName /\ r.unit = SharedUnit}
      new == new_cache_entry(SharedName, SharedUnit, price_data)
  IN  IF rows = {} THEN price_cache \cup {new}
      ELSE LET old == CHOOSE r \in rows : \A o \in rows : o.id <= r.id
           IN  (price_cache \ {old}) \cup {[new EXCEPT !.id = old.id]}

\* _cache_price, the database part: PriceCache(...), add, commit
durable_add(price_data) ==
  price_cache \cup {new_cache_entry(SharedName, SharedUnit, price_data)}

\* an exception of the commit is swallowed after a rollback
DurableAdd(p) ==
  /\ lookups[p].pc = "add"
  /\ \E fault \in BOOLEAN :
       LET price_data == fetch_price_from_sources(SharedName, SharedUnit)
           after == durable_add(price_data)
       IN  IF fault
           THEN UNCHANGED <<price_cache, writes>>
           ELSE /\ price_cache' = after
                /\ writes' = [writes EXCEPT
                                !.whole = @ \cup {whole_entry(r) : r \in after \ price_cache}]
  /\ lookups' = [lookups EXCEPT ![p].pc = "returned"]
  /\ UNCHANGED <<now, redis, redis_client, sess_broken, last>>
  /\ UNCHANGED <<storeVars, ragVars, aiVars, workerVars>>

NextShared ==
  \/ \E p \in Callers : BeginLookup(p)
  \/ \E p \in Callers : FastGet(p)
  \/ \E p \in Callers : DurableQuery(p)
  \/ \E p \in Callers : HitCommit(p)
  \/ \E p \in Callers : FastSet(p)
  \/ \E p \in Callers : DurableAdd(p)
  \/ Tick

SpecShared == Init /\ [][NextShared]_vars

\* Concurrent lookups on a store in which an earlier run has cached the
\* price of the pair: the row is valid until the clock reaches its
\* valid_until, and every caller that finds it counts a hit.
InitHits ==
  /\ now = 0
  /\ redis = {}
  /\ redis_client = FALSE
  /\ price_cache = {stored_row(1, 0)}
  /\ sess_broken = FALSE
  /\ last = NoCall
  /\ documents = [d \in Docs |-> [status |-> "absent", processing_error |-> "", file |-> 0]]
  /\ analyses = {}
  /\ interventions = {}
  /\ cost_items = {}
  /\ staged = NoStaged
  /\ queue = <<>>
  /\ run = Idle
  /\ chroma = NoIndex
  /\ rag_service = NoService
  /\ rag_req = NoReq
  /\ rag_found = NoFound
  /\ ai_in = NoInput
  /\ ai_out = NoOutput
  /\ lookups = NoLookups
  /\ workers = NoTasks
  /\ writes = NoWrites

SpecHits == InitHits /\ [][NextShared]_vars

-----------------------------------------------------------------------------
(* The request handlers (api/routes.py).  The background task is a        *)
(* coroutine of the server's event loop whose steps are blocking calls: it *)
(* never yields the loop, so a request is handled before or after a run.   *)

\* upload_document: save_document commits the row with status UPLOADED, then
\* the background task is scheduled
upload_document(d) ==
  /\ run.pc \in {"idle", "done"}
  /\ documents[d].status = "absent"
  /\ \A o \in Docs : o < d => documents[o].status # "absent"
  /\ Len(queue) < MaxQueue
  /\ \E file \in Files :
       documents' = [documents EXCEPT ![d] = [@ EXCEPT !.status = "uploaded", !.file = file]]
  /\ queue' = Append(queue, d)
  /\ UNCHANGED <<analyses, interventions, cost_items, staged, run>>
  /\ UNCHANGED pricingVars
  /\ UNCHANGED <<ragVars, aiVars, lookupVars, workerVars>>

\* analyze_document: refused unless the document is COMPLETED
analyze_document(d) ==
  /\ run.pc \in {"idle", "done"}
  /\ documents[d].status = "completed"
  /\ Len(queue) < MaxQueue
  /\ queue' = Append(queue, d)
  /\ UNCHANGED <<documents, analyses, interventions, cost_items, staged, run>>
  /\ UNCHANGED pricingVars
  /\ UNCHANGED <<ragVars, aiVars, lookupVars, workerVars>>

-----------------------------------------------------------------------------
(* The standards retrieval service on its own: the application starts and  *)
(* stops (main.py lifespan), find_relevant_standards is called with any    *)
(* candidate and any ranked list of the index.                             *)

\* documents a query ranks: two standards and three of their clauses
RankDocs ==
  {standard_doc(irc_standards[1]), clause_doc(irc_standards[1], "4.1"),
   clause_doc(irc_standards[1], "4.2"), standard_doc(irc_standards[2]),
   clause_doc(irc_standards[2], "4.1")}

Distances == {-50, 50, 150}

hit(doc, distance) ==
  [id |-> doc.id, code |-> doc.code, clause |-> doc.clause, distance |-> distance]

\* the ranked lists: distinct documents, nearest first
Rankings ==
  {r \in [1..MaxRank -> {hit(doc, d) : doc \in RankDocs, d \in Distances}] :
     /\ \A i, j \in 1..MaxRank : i < j => r[i].id # r[j].id
     /\ \A i \in 1..(MaxRank - 1) : r[i].distance <= r[i + 1].distance}

Candidates ==
  {[intervention_type |-> "Road Marking", description |-> "road marking at the junction",
    keywords_matched |-> <<"road marking">>],
   [intervention_type |-> "", description |-> "", keywords_matched |-> <<>>]}

TopKs == {k \in 1..DefaultTopK : n_results(k) <= MaxRank}

\* RAGService.initialize at application start.  get_collection raises when
\* the collection does not exist (or on a fault); then create_collection,
\* which raises when it does exist, and _load_irc_standards.  When the add
\* raises, initialize raises and the process does not start; the collection
\* it created is persisted by the client on exit (kept) or lost.
initialize ==
  /\ ~rag_service.up
  /\ \E get_fault, add_fault, kept \in BOOLEAN :
       IF chroma.exists /\ ~get_fault
       THEN /\ rag_service' = [up |-> TRUE, collection |-> TRUE,
                               irc_standards_db |-> {}, mem |-> chroma]
            /\ chroma' = chroma
       ELSE IF chroma.exists
       THEN UNCHANGED <<rag_service, chroma>>
       ELSE IF add_fault
       THEN /\ rag_service' = rag_service
            /\ chroma' = IF kept THEN [exists |-> TRUE, docs |-> <<>>] ELSE chroma
       ELSE /\ rag_service' = load_irc_standards([exists |-> TRUE, docs |-> <<>>])
            /\ chroma' = chroma
  /\ UNCHANGED <<rag_req, rag_found>>
  /\ UNCHANGED <<pricingVars, storeVars, aiVars, lookupVars, workerVars>>

\* RAGService.cleanup at shutdown: self.client.persist()
cleanup ==
  /\ rag_service.up
  /\ chroma' = rag_service.mem
  /\ rag_service' = NoService
  /\ UNCHANGED <<rag_req, rag_found>>
  /\ UNCHANGED <<pricingVars, storeVars, aiVars, lookupVars, workerVars>>

FindRelevant ==
  /\ \E fault \in BOOLEAN :
       LET res == find_relevant_standards(rag_req.intervention, rag_req.top_k,
                                          rag_service, rag_req.ranking, fault)
       IN  rag_found' = [called |-> TRUE, queried |-> res.queried,
                         n_results |-> res.n_results, raised |-> res.raised,
                         hits |-> res.hits, standards |-> res.standards]
  /\ UNCHANGED <<chroma, rag_service, rag_req>>
  /\ UNCHANGED <<pricingVars, storeVars, aiVars, lookupVars, workerVars>>

NextRag == initialize \/ cleanup \/ FindRelevant

InitRag ==
  /\ now = 0
  /\ redis = {}
  /\ redis_client = FALSE
  /\ price_cache = {}
  /\ sess_broken = FALSE
  /\ last = NoCall
  /\ documents = [d \in Docs |-> [status |-> "absent", processing_error |-> "", file |-> 0]]
  /\ analyses = {}
  /\ interventions = {}
  /\ cost_items = {}
  /\ staged = NoStaged
  /\ queue = <<>>
  /\ run = Idle
  /\ chroma = NoIndex
  /\ rag_service = NoService
  /\ rag_req \in [intervention : Candidates, top_k : TopKs, ranking : Rankings]
  /\ rag_found = NoFound
  /\ ai_in = NoInput
  /\ ai_out = NoOutput
  /\ lookups = NoLookups
  /\ workers = NoTasks
  /\ writes = NoWrites

SpecRag == InitRag /\ [][NextRag]_vars

-----------------------------------------------------------------------------
(* Calls of the pure functions of AIService, one call per behaviour: the   *)
(* arguments are drawn at the start, the action of the function called     *)
(* records what it returns.                                                *)

MaxCandidates == 3   \* candidates in one list handed to the merge
MaxKeywords == 4     \* matched keywords of one sentence
MaxQuantities == 2   \* extracted quantities of one intervention

\* keys that differ in the type, in the location or in the chainage
CandidateKeys ==
  {<<"Safety Barrier", "None", "None">>, <<"Signage", "None", "None">>,
   <<"Safety Barrier", "NH-48", "None">>, <<"Safety Barrier", "None", "Km 12+300">>}

Confidences == {60, 90}

\* the candidates of the sentences 1..n in sentence order; the description
\* of a candidate is its sentence, here the number of the sentence
candidates_of(f) ==
  [k \in DOMAIN f |->
     [intervention_type |-> f[k][1][1], location |-> f[k][1][2],
      chainage |-> f[k][1][3], confidence_score |-> f[k][2], description |-> k]]

CandidateLists ==
  UNION {{candidates_of(f) : f \in [1..n -> CandidateKeys \X Confidences]} :
           n \in 0..MaxCandidates}

WordCounts == {0, 9, 10, 11, 100, 101}

KeywordLists == {SubSeq(intervention_keywords, 1, n) : n \in 0..MaxKeywords}

QuantityLists ==
  {<<>>, <<[value |-> 150, unit |-> "m"]>>,
   <<[value |-> 150, unit |-> "m"], [value |-> 2, unit |-> "nos"]>>}

MergeInputs == [op : {"merge"}, interventions : CandidateLists]

Numerals == {<<"1", "0">>, <<"2", "0">>, <<"1", ".", "5">>, <<"2", ".", "5">>}

\* the units of the two-number pattern
LengthUnits == {<<"m">>, <<"m", "e", "t", "e", "r">>, <<"m", "e", "t", "r", "e">>}

\* the text "A x B u"
two_number_form(a, b, u) == a \o <<" ", "x", " ">> \o b \o <<" ">> \o u

QuantityInputs ==
  {[op |-> "quantities", a |-> a, b |-> b, u |-> u, text |-> two_number_form(a, b, u)] :
     a \in Numerals, b \in Numerals, u \in LengthUnits}

ConfidenceInputs ==
  [op : {"confidence"}, sentence : [words : WordCounts],
   keywords : KeywordLists, quantities : QuantityLists]

\* intervention types with rules in m, nos, kg and sqm, and one without rules
RuleTypes == {"Safety Barrier", "Road Marking", "Signage", "Pedestrian Facility",
              "General Safety Intervention"}

QuantityUnits == {"m", "nos", "kg", "sqm"}

QuantityValues == {4, 5}

ExtractedQuantities ==
  UNION {[1..n -> [value : QuantityValues, unit : QuantityUnits]] : n \in 1..MaxQuantities}

MaterialInputs ==
  [op : {"materials"}, intervention_type : RuleTypes, quantities : ExtractedQuantities]

\* What a request to an external source comes to.  The requests are not
\* made by _fetch_from_cpwd_sor and _fetch_from_gem as they stand; the
\* outcomes are those of the HTTP call each of them is written around.
SourceOutcomes == {"price", "nothing", "raised", "timeout"}

\* the rate each source quotes when it has one
quoted == [cpwd |-> 900, gem |-> 950]

\* what the function of a source returns: the data of the response, or None
\* when there is none or when the request raised (except Exception: log,
\* return None)
source_result(source, outcome) ==
  IF outcome = "price"
  THEN [found |-> TRUE, unit_rate |-> quoted[source], source |-> source,
        reference |-> source]
  ELSE NoPrice

\* names in the reference table, near one of its names, and unlike any
SourceNames == {"Steel Crash Barrier", "crash barrier", "General Safety Intervention"}

SourceInputs ==
  [op : {"sources"}, material_name : SourceNames, quantity : {2}, unit : {"m"},
   cpwd : SourceOutcomes, gem : SourceOutcomes]

\* get_material_price after a miss of both caches (lines 228-245)
price_uncached(material_name, quantity, unit, cpwd, gem) ==
  LET p == fetch_price_from(material_name, unit, cpwd, gem)
  IN  [attempted |-> p.trace,
       tier |-> IF p.found THEN p.tier ELSE fallback_tier(material_name),
       ret |-> IF p.found
               THEN priced(material_name, quantity, unit, p.unit_rate, p.source,
                           p.reference, now, FALSE)
               ELSE get_fallback_price(material_name, quantity, unit)]

\* pieces of a sentence: keywords of several categories in either case, a
\* keyword of the vocabulary that no category lists ("median"), a word that
\* is no keyword
Fragments ==
  {<<"G","u","a","r","d","r","a","i","l">>,
   <<"r","u","m","b","l","e"," ","s","t","r","i","p">>,
   <<"S","I","G","N","A","G","E">>,
   <<"r","o","a","d"," ","m","a","r","k","i","n","g">>,
   <<"Z","e","b","r","a"," ","C","r","o","s","s","i","n","g">>,
   <<"m","e","d","i","a","n">>,
   <<"k","m"," ","s","t","o","n","e">>,
   <<"j","u","n","c","t","i","o","n">>,
   <<"w","o","r","k","s">>}

MaxFragments == 2    \* fragments joined into one sentence

\* the fragments joined by " and "
RECURSIVE join_fragments(_)
join_fragments(fs) ==
  IF Len(fs) = 1 THEN fs[1]
  ELSE fs[1] \o <<" ","a","n","d"," ">> \o join_fragments(Tail(fs))

FragmentSentences ==
  UNION {{join_fragments(fs) : fs \in [1..n -> Fragments]} : n \in 1..MaxFragments}

ClassifyInputs == {[op |-> "classify", sentence |-> s] : s \in FragmentSentences}

MergeSimilar ==
  /\ ai_in.op = "merge" /\ ai_out = NoOutput
  /\ ai_out' = [op |-> "merge",
                unique |-> merge_similar_interventions(ai_in.interventions)]
  /\ UNCHANGED <<pricingVars, storeVars, ragVars, ai_in, lookupVars, workerVars>>

CalculateConfidence ==
  /\ ai_in.op = "confidence" /\ ai_out = NoOutput
  /\ ai_out' = [op |-> "confidence",
                score |-> calculate_confidence(ai_in.sentence, ai_in.keywords,
                                               ai_in.quantities)]
  /\ UNCHANGED <<pricingVars, storeVars, ragVars, ai_in, lookupVars, workerVars>>

ExtractQuantities ==
  /\ ai_in.op = "quantities" /\ ai_out = NoOutput
  /\ ai_out' = [op |-> "quantities",
                quantities |-> extract_quantities_from(ai_in.text)]
  /\ UNCHANGED <<pricingVars, storeVars, ragVars, ai_in, lookupVars, workerVars>>

IdentifyMaterials ==
  /\ ai_in.op = "materials" /\ ai_out = NoOutput
  /\ ai_out' = [op |-> "materials", materials |-> identify_materials(ai_in)]
  /\ UNCHANGED <<pricingVars, storeVars, ragVars, ai_in, lookupVars, workerVars>>

FetchFromSources ==
  /\ ai_in.op = "sources" /\ ai_out = NoOutput
  /\ ai_out' = [op |-> "sources",
                price |-> price_uncached(ai_in.material_name, ai_in.quantity, ai_in.unit,
                                         source_result("cpwd", ai_in.cpwd),
                                         source_result("gem", ai_in.gem))]
  /\ UNCHANGED <<pricingVars, storeVars, ragVars, ai_in, lookupVars, workerVars>>

ClassifyType ==
  /\ ai_in.op = "classify" /\ ai_out = NoOutput
  /\ ai_out' = [op |-> "classify",
                type |-> classify_intervention_type(read_sentence("sentence", ai_in.sentence))]
  /\ UNCHANGED <<pricingVars, storeVars, ragVars, ai_in, lookupVars, workerVars>>

NextAI ==
  \/ ClassifyType
  \/ MergeSimilar
  \/ CalculateConfidence
  \/ ExtractQuantities
  \/ IdentifyMaterials
  \/ FetchFromSources

InitAI ==
  /\ now = 0
  /\ redis = {}
  /\ redis_client = FALSE
  /\ price_cache = {}
  /\ sess_broken = FALSE
  /\ last = NoCall
  /\ documents = [d \in Docs |-> [status |-> "absent", processing_error |-> "", file |-> 0]]
  /\ analyses = {}
  /\ interventions = {}
  /\ cost_items = {}
  /\ staged = NoStaged
  /\ queue = <<>>
  /\ run = Idle
  /\ chroma = NoIndex
  /\ rag_service = NoService
  /\ rag_req = NoReq
  /\ rag_found = NoFound
  /\ ai_in \in MergeInputs \cup ConfidenceInputs \cup QuantityInputs \cup MaterialInputs
              \cup SourceInputs \cup ClassifyInputs
  /\ ai_out = NoOutput
  /\ lookups = NoLookups
  /\ workers = NoTasks
  /\ writes = NoWrites

SpecAI == InitAI /\ [][NextAI]_vars

-----------------------------------------------------------------------------
(* The background run: process_document_background around                  *)
(* AnalysisService.process_document, one action per step of the pipeline.  *)
(* A step that raises runs the handlers at once: process_document's        *)
(* except (rollback, re-raise) and the task's except                       *)
(* (update_status(FAILED, error=str(e))).  update_status queries the       *)
(* document and commits; when it raises in the task's except the exception *)
(* leaves the task and the status stays as it was.                         *)

\* the handlers after an exception with message msg; faults is the count of
\* swallowed faults of the run.  An update_status(FAILED) that raises counts
\* against MaxFaults: it can leave a COMPLETED document COMPLETED, which
\* can then be analysed again.
RaiseWith(msg, faults) ==
  /\ staged' = NoStaged
  /\ sess_broken' = FALSE
  /\ \E stored \in BOOLEAN :
       /\ stored \/ faults < MaxFaults
       /\ documents' = IF stored THEN update_status(run.doc, "failed", msg) ELSE documents
       /\ run' = [Idle EXCEPT !.pc = "done", !.doc = run.doc, !.no = run.no,
                              !.faults = IF stored THEN faults ELSE faults + 1,
                              !.calls = run.calls, !.stage = "FAILED",
                              !.from = run.stage, !.raised = TRUE, !.error = msg]

Raise(msg) == RaiseWith(msg, run.faults)

\* the task starts: a new session and the services of the run, among them a
\* PricingService that has answered no call yet
StartRun ==
  /\ run.pc \in {"idle", "done"}
  /\ queue # <<>>
  /\ queue' = Tail(queue)
  /\ staged' = NoStaged
  /\ sess_broken' = FALSE
  /\ \E up \in BOOLEAN : redis_client' = up
  /\ run' = [Idle EXCEPT !.pc = "mark_processing", !.doc = Head(queue),
                         !.no = run.no + 1, !.faults = run.faults, !.stage = "STARTED"]
  /\ last' = NoCall
  /\ UNCHANGED <<now, redis, price_cache>>
  /\ UNCHANGED <<documents, analyses, interventions, cost_items>>
  /\ UNCHANGED <<ragVars, aiVars, lookupVars, workerVars>>

\* doc_service.update_status(document_id, PROCESSING), line 214
MarkProcessing ==
  /\ run.pc = "mark_processing"
  /\ \E fault \in BOOLEAN :
       IF fault
       THEN Raise("OperationalError")
       ELSE /\ documents' = update_status(run.doc, "processing", "")
            /\ run' = [run EXCEPT !.pc = "create_analysis"]
            /\ UNCHANGED <<staged, sess_broken>>
  /\ UNCHANGED <<analyses, interventions, cost_items, queue>>
  /\ UNCHANGED pricingVarsButSession
  /\ UNCHANGED <<ragVars, aiVars, lookupVars, workerVars>>

\* Analysis(document_id=..., analysis_started_at=...); db.add; db.commit()
new_analysis ==
  [id |-> run.no, document_id |-> run.doc, completed |-> FALSE, report_path |-> "None",
   total_interventions |-> 0, total_cost |-> 0, assumptions |-> <<>>, warnings |-> <<>>]

CreateAnalysis ==
  /\ run.pc = "create_analysis"
  /\ \E fault \in BOOLEAN :
       LET st == [staged EXCEPT !.analyses = @ \cup {new_analysis}]
       IN  IF flush_fails_with(st)
           THEN Raise("IntegrityError") /\ UNCHANGED analyses
           ELSE IF fault
           THEN Raise("OperationalError") /\ UNCHANGED analyses
           ELSE /\ analyses' = analyses \cup st.analyses
                /\ run' = [run EXCEPT !.pc = "extract_text"]
                /\ UNCHANGED <<staged, sess_broken, documents>>
  /\ UNCHANGED <<interventions, cost_items, queue>>
  /\ UNCHANGED pricingVarsButSession
  /\ UNCHANGED <<ragVars, aiVars, lookupVars, workerVars>>

\* not text or len(text.strip()) < 50
insufficient(text) == text.len = 0 \/ text.len < MinTextLen

\* Step 1: extract_text, update_extracted_text (a commit), the length check
ExtractText ==
  /\ run.pc = "extract_text"
  /\ \E fault \in BOOLEAN :
       LET file == documents[run.doc].file
       IN  IF file = 0
           THEN Raise("Unsupported file type")
           ELSE IF fault \/ flush_fails
           THEN Raise("OperationalError")
           ELSE IF insufficient(Texts[file])
           THEN Raise("Insufficient text extracted from document")
           ELSE /\ run' = [run EXCEPT !.pc = "extract_interventions", !.text = file,
                                      !.stage = "TEXT_EXTRACTED"]
                /\ UNCHANGED <<staged, sess_broken, documents>>
  /\ UNCHANGED <<analyses, interventions, cost_items, queue>>
  /\ UNCHANGED pricingVarsButSession
  /\ UNCHANGED <<ragVars, aiVars, lookupVars, workerVars>>

\* extract_interventions on each of the texts, evaluated once per text
Extracted == [k \in DOMAIN Texts |-> extract_interventions(Texts[k])]

\* Step 2: ai_service.extract_interventions, the emptiness check
ExtractInterventions ==
  /\ run.pc = "extract_interventions"
  /\ \E fault \in BOOLEAN, found \in {Extracted[run.text]} :
           IF fault
           THEN Raise("AIError")
           ELSE IF found = <<>>
           THEN Raise("No interventions found in document")
           ELSE /\ run' = [run EXCEPT !.pc = "intervention", !.ivs = found, !.idx = 1,
                                      !.calls = @ \cup {"ai"},
                                      !.stage = "INTERVENTIONS_EXTRACTED"]
                /\ UNCHANGED <<staged, sess_broken, documents>>
  /\ UNCHANGED <<analyses, interventions, cost_items, queue>>
  /\ UNCHANGED pricingVarsButSession
  /\ UNCHANGED <<ragVars, aiVars, lookupVars, workerVars>>

\* Step 3, head of the loop body: find_relevant_standards (which returns []
\* on any error of its own), Intervention(...), db.add, db.flush, then
\* _identify_materials
new_intervention(irc_standards_found) ==
  [id |-> <<run.no, run.idx>>, document_id |-> run.doc,
   intervention_type |-> run.ivs[run.idx].intervention_type,
   irc_standards |-> irc_codes(irc_standards_found),
   irc_clauses |-> irc_clauses(irc_standards_found)]

\* The service of app.state during a run: initialized, the corpus indexed.
RunService == load_irc_standards([exists |-> TRUE, docs |-> <<>>])

\* what the index ranks nearest to the query of a run
RunRanking ==
  << hit(clause_doc(irc_standards[1], "4.1"), 40), hit(standard_doc(irc_standards[1]), 45),
     hit(clause_doc(irc_standards[2], "4.1"), 60), hit(clause_doc(irc_standards[1], "4.2"), 70),
     hit(standard_doc(irc_standards[2]), 80), hit(standard_doc(irc_standards[3]), 120) >>

\* the loop over the interventions left after its first pass
last_intervention_always == TRUE

\* for idx, intervention_data in enumerate(interventions): the pass is the last
last_intervention == run.idx = Len(run.ivs)

BeginIntervention ==
  /\ run.pc = "intervention"
  /\ \E fault, rag_fault \in BOOLEAN :
       LET found == find_relevant_standards(run.ivs[run.idx], DefaultTopK,
                                            RunService, RunRanking, rag_fault)
           new == new_intervention(found.standards)
           st == [staged EXCEPT !.interventions = @ \cup {new}]
           materials == identify_materials(run.ivs[run.idx])
           began == [run EXCEPT !.iv_id = new.id, !.rag_raised = found.raised,
                                !.faults = IF found.raised THEN @ + 1 ELSE @,
                                !.calls = @ \cup {"rag"}]
       IN  IF found.raised /\ run.faults >= MaxFaults
           THEN FALSE
           ELSE IF flush_error(st) # ""
           THEN Raise(flush_error(st))
           ELSE IF fault
           THEN Raise("OperationalError")
           ELSE /\ staged' = st
                /\ run' = IF materials = <<>>
                          THEN \* lines 172-175: the assumption is appended to the
                               \* list of the call, which returns None
                               [began EXCEPT !.idx = IF last_intervention THEN @ ELSE @ + 1,
                                             !.pc = IF last_intervention THEN "report"
                                                    ELSE "intervention",
                                             !.stage = IF last_intervention THEN "PRICED" ELSE @]
                          ELSE [began EXCEPT !.pc = "price", !.materials = materials,
                                             !.mi = 1, !.cd_total = 0,
                                             !.cd_assumptions = <<>>, !.cd_warnings = <<>>]
                /\ UNCHANGED <<sess_broken, documents>>
  /\ UNCHANGED <<analyses, interventions, cost_items, queue>>
  /\ UNCHANGED pricingVarsButSession
  /\ UNCHANGED <<ragVars, aiVars, lookupVars, workerVars>>

\* Within a run the Redis client that answered the ping of __init__ keeps
\* answering; the database may fail at any operation.
RunFaults == {f \in Faults : ~f.rget /\ ~f.rset}

\* CostItem(...) of one priced material
new_cost_item(material, price_data) ==
  [id |-> <<run.no, run.idx, run.mi>>, intervention_id |-> run.iv_id,
   material_name |-> material.name, quantity |-> material.quantity,
   unit |-> material.unit, unit_rate |-> price_data.unit_rate,
   total_cost |-> price_data.total_cost, price_source |-> price_data.source]

\* The session after an exception that process_document does not handle
\* with a rollback.  What a failed statement leaves behind depends on the
\* database and on the error: the transaction is aborted and every later
\* statement raises until a rollback (aborts), or it stays usable.  A
\* commit that raised, in its flush or in the COMMIT itself, leaves the
\* transaction of the session failed: nothing more can be emitted in it
\* until a rollback, which the pricing service does not issue on this path.
session_outcome(txn, aborts) ==
  CASE txn = "failed_read" -> IF aborts THEN "broken" ELSE "none"
    [] txn = "failed_commit" -> "broken"
    [] OTHER -> txn

\* what a call of get_material_price leaves in the caller's session
session_after(txn) ==
  IF txn \in {"commit", "rollback"} THEN NoStaged ELSE staged

\* an entry of the assumptions or of the warnings: the text before the name
\* and the name
message(text, name) == <<text, name>>

\* lines 205-206 without the test of the flag
assumptions_for_every(material, price_data) ==
  IF price_data.kind = "ok"
  THEN <<message("Estimated rate used for", material.name)>>
  ELSE <<>>

\* lines 205-206: what one priced material appends to the assumptions
assumptions_for(material, price_data) ==
  IF price_data.kind = "ok" /\ price_data.is_estimate
  THEN <<message("Estimated rate used for", material.name)>>
  ELSE <<>>

\* lines 207-212: what one material appends to the warnings
warnings_for(material, price_data) ==
  IF price_data.kind # "ok"
  THEN <<message("Failed to get price for", material.name)>>
  ELSE IF price_data.requires_verification
  THEN <<message("Price verification required for", material.name)>>
  ELSE <<>>

\* what get_material_price answered for one material of the run
price_record(material, price_data) ==
  [intervention |-> run.idx, material |-> run.mi, name |-> material.name,
   raised |-> price_data.kind # "ok",
   total_cost |-> IF price_data.kind = "ok" THEN price_data.total_cost ELSE 0,
   is_estimate |-> price_data.kind = "ok" /\ price_data.is_estimate,
   requires_verification |-> price_data.kind = "ok" /\ price_data.requires_verification]

\* Step 4, one iteration of the loop of _calculate_intervention_cost; after
\* the last material the loop body of process_document ends (lines 115-118)
PriceMaterial ==
  /\ run.pc = "price"
  /\ \E f \in RunFaults, aborts \in BOOLEAN :
     \E e \in durable_first(run.materials[run.mi].name, run.materials[run.mi].unit) :
     \E r \in {get_material_price(run.materials[run.mi].name, run.materials[run.mi].quantity,
                                  run.materials[run.mi].unit, f, e)} :
       LET material == run.materials[run.mi]
           txn == session_outcome(r.txn, aborts)
           st == session_after(txn)
           ok == r.ret.kind = "ok"
           total == run.cd_total + (IF ok THEN r.ret.total_cost ELSE 0)
           assume == run.cd_assumptions \o assumptions_for(material, r.ret)
           warn == run.cd_warnings \o warnings_for(material, r.ret)
           prices == Append(run.prices, price_record(material, r.ret))
           lastm == run.mi = Len(run.materials)
           lasti == last_intervention
           faulty == r.txn \in {"failed_read", "failed_commit"} \/ r.write_failed # {}
           faults == IF faulty THEN run.faults + 1 ELSE run.faults
       IN  /\ (IF e.id = 0 THEN TRUE ELSE e.cache_hits < MaxHits)
           /\ faults <= MaxFaults
           /\ redis' = r.redis
           /\ price_cache' = r.price_cache
           /\ last' = call_record(material.name, material.quantity, material.unit, f, r)
           /\ sess_broken' = (sess_broken \/ txn = "broken")
           /\ analyses' = IF txn = "commit" THEN commit_analyses ELSE analyses
           /\ interventions' = IF txn = "commit" THEN commit_interventions ELSE interventions
           /\ cost_items' = IF txn = "commit" THEN commit_cost_items ELSE cost_items
           /\ staged' = IF ok
                        THEN [st EXCEPT !.cost_items = @ \cup {new_cost_item(material, r.ret)}]
                        ELSE st
           /\ run' = IF ~lastm
                     THEN [run EXCEPT !.mi = @ + 1, !.calls = @ \cup {"pricing"},
                                      !.faults = faults, !.prices = prices,
                                      !.cd_total = total, !.cd_assumptions = assume,
                                      !.cd_warnings = warn]
                     ELSE [run EXCEPT !.calls = @ \cup {"pricing"},
                                      !.faults = faults, !.prices = prices,
                                      !.total_cost = @ + total,
                                      !.assumptions = @ \o assume,
                                      !.warnings = @ \o warn,
                                      !.cd_total = 0, !.cd_assumptions = <<>>,
                                      !.cd_warnings = <<>>,
                                      !.mi = 0, !.materials = <<>>,
                                      !.idx = IF lasti THEN @ ELSE @ + 1,
                                      !.pc = IF lasti THEN "report" ELSE "intervention",
                                      !.stage = IF lasti THEN "PRICED" ELSE @]
  /\ UNCHANGED <<now, redis_client, documents, queue>>
  /\ UNCHANGED <<ragVars, aiVars, lookupVars, workerVars>>

\* the loop of _summarize_by_type from the summary built so far
RECURSIVE summarize_from(_, _)
summarize_from(ivs, summary) ==
  IF ivs = <<>> THEN summary
  ELSE LET itype == Head(ivs).intervention_type
           n == IF itype \in DOMAIN summary THEN summary[itype] ELSE 0
       IN  summarize_from(Tail(ivs),
             [t \in DOMAIN summary \cup {itype} |-> IF t = itype THEN n + 1 ELSE summary[t]])

\* a summary that notes each type once
summarize_by_type_once(ivs) ==
  [t \in {ivs[k].intervention_type : k \in DOMAIN ivs} |-> 1]

\* AnalysisService._summarize_by_type: the dict type -> number of candidates
summarize_by_type(ivs) == summarize_from(ivs, <<>>)

\* the Analysis row as lines 121-133 and 146-147 leave it
final_analysis ==
  [id |-> run.no, document_id |-> run.doc, completed |-> TRUE, report_path |-> "report",
   total_interventions |-> Len(run.ivs), total_cost |-> run.total_cost,
   assumptions |-> run.assumptions, warnings |-> run.warnings,
   summary_data |-> [interventions_by_type |-> summarize_by_type(run.ivs),
                     total_interventions |-> Len(run.ivs),
                     total_cost |-> run.total_cost]]

\* Step 5: the analysis fields are set, the interventions are queried (an
\* autoflush) and generate_report is called
GenerateReport ==
  /\ run.pc = "report"
  /\ \E fault \in {"none", "db", "report"} :
       LET st == [staged EXCEPT !.analysis_update = {final_analysis}]
       IN  IF flush_error(st) # ""
           THEN Raise(flush_error(st))
           ELSE IF fault = "db"
           THEN Raise("OperationalError")
           ELSE IF fault = "report"
           THEN Raise("ReportError")
           ELSE /\ staged' = st
                /\ run' = [run EXCEPT !.pc = "commit", !.calls = @ \cup {"report"},
                                      !.stage = "REPORTED"]
                /\ UNCHANGED <<sess_broken, documents>>
  /\ UNCHANGED <<analyses, interventions, cost_items, queue>>
  /\ UNCHANGED pricingVarsButSession
  /\ UNCHANGED <<ragVars, aiVars, lookupVars, workerVars>>

\* self.db.commit() at the end of process_document
FinalCommit ==
  /\ run.pc = "commit"
  /\ \E fault \in BOOLEAN :
       IF flush_error(staged) # "" \/ fault
       THEN /\ Raise(IF flush_error(staged) # "" THEN flush_error(staged)
                      ELSE "OperationalError")
            /\ UNCHANGED <<analyses, interventions, cost_items>>
       ELSE /\ analyses' = commit_analyses
            /\ interventions' = commit_interventions
            /\ cost_items' = commit_cost_items
            /\ staged' = NoStaged
            /\ run' = [run EXCEPT !.pc = "returned", !.stage = "COMMITTED"]
            /\ UNCHANGED <<sess_broken, documents>>
  /\ UNCHANGED queue
  /\ UNCHANGED pricingVarsButSession
  /\ UNCHANGED <<ragVars, aiVars, lookupVars, workerVars>>

\* process_document returned: update_status(COMPLETED); when that raises,
\* the task's except runs update_status(FAILED), which may raise as well
MarkCompleted ==
  /\ run.pc = "returned"
  /\ \E fault, stored \in BOOLEAN :
       LET lost == fault /\ ~stored
       IN  /\ lost => run.faults < MaxFaults
           /\ documents' = IF ~fault THEN update_status(run.doc, "completed", "")
                            ELSE IF stored
                            THEN update_status(run.doc, "failed", "OperationalError")
                            ELSE documents
           /\ run' = [Idle EXCEPT !.pc = "done", !.doc = run.doc, !.no = run.no,
                                  !.faults = IF lost THEN run.faults + 1 ELSE run.faults,
                                  !.calls = run.calls, !.stage = run.stage]
  /\ UNCHANGED <<analyses, interventions, cost_items, staged, queue>>
  /\ UNCHANGED pricingVars
  /\ UNCHANGED <<ragVars, aiVars, lookupVars, workerVars>>

Next ==
  \/ \E d \in Docs : upload_document(d)
  \/ \E d \in Docs : analyze_document(d)
  \/ StartRun
  \/ MarkProcessing
  \/ CreateAnalysis
  \/ ExtractText
  \/ ExtractInterventions
  \/ BeginIntervention
  \/ PriceMaterial
  \/ GenerateReport
  \/ FinalCommit
  \/ MarkCompleted

Spec == Init /\ [][Next]_vars

\* The steps of the background task.  The event loop runs a scheduled task,
\* and a step that was called returns or raises.
RunStep ==
  \/ StartRun
  \/ MarkProcessing
  \/ CreateAnalysis
  \/ ExtractText
  \/ ExtractInterventions
  \/ BeginIntervention
  \/ PriceMaterial
  \/ GenerateReport
  \/ FinalCommit
  \/ MarkCompleted

SpecLive == Init /\ [][Next]_vars /\ WF_vars(RunStep)

-----------------------------------------------------------------------------
(* The server with its worker processes.  main.py starts uvicorn with      *)
(* workers = settings.WORKERS (4) unless DEBUG is set; each worker process *)
(* has an event loop of its own and all share the database.  A worker      *)
(* handles a request, and the background task the request scheduled runs   *)
(* in that worker after the response.  Within one worker a task never      *)
(* yields the loop, so the steps of tasks interleave only across workers,  *)
(* at the database commits.  The run itself (steps 1 to 5 of               *)
(* process_document, modelled step by step in Spec) is one step here.      *)

Workers == 1..MaxWorkers

\* the task of worker w has started and has not finished
in_progress(w) ==
  workers[w].pc \in {"mark_processing", "create_analysis", "pipeline", "returned"}

\* upload_document handled by worker w: save_document commits the row with
\* status UPLOADED, then the background task is scheduled
worker_upload_document(w, d) ==
  /\ workers[w].pc = "idle"
  /\ documents[d].status = "absent"
  /\ \A o \in Docs : o < d => documents[o].status # "absent"
  /\ \E file \in Files :
       documents' = [documents EXCEPT ![d] = [@ EXCEPT !.status = "uploaded", !.file = file]]
  /\ workers' = [workers EXCEPT ![w] = [pc |-> "scheduled", doc |-> d]]
  /\ UNCHANGED <<analyses, interventions, cost_items, staged, queue, run>>
  /\ UNCHANGED pricingVars
  /\ UNCHANGED <<ragVars, aiVars, lookupVars>>

\* analyze_document handled by worker w: refused unless the document read
\* by get_document is COMPLETED, then the background task is scheduled
worker_analyze_document(w, d) ==
  /\ workers[w].pc = "idle"
  /\ documents[d].status = "completed"
  /\ workers' = [workers EXCEPT ![w] = [pc |-> "scheduled", doc |-> d]]
  /\ UNCHANGED storeVars
  /\ UNCHANGED pricingVars
  /\ UNCHANGED <<ragVars, aiVars, lookupVars>>

\* process_document_background starts in worker w: db = SessionLocal() and
\* the services of the run
TaskStart(w) ==
  /\ workers[w].pc = "scheduled"
  /\ workers' = [workers EXCEPT ![w].pc = "mark_processing"]
  /\ UNCHANGED storeVars
  /\ UNCHANGED pricingVars
  /\ UNCHANGED <<ragVars, aiVars, lookupVars>>

\* the task's except and finally: update_status(FAILED, error), which may
\* raise as well, and db.close()
TaskRaise(w, msg) ==
  /\ \E stored \in BOOLEAN :
       documents' = IF stored THEN update_status(workers[w].doc, "failed", msg)
                    ELSE documents
  /\ workers' = [workers EXCEPT ![w] = NoTask]

\* doc_service.update_status(document_id, PROCESSING) of the task of w
TaskMarkProcessing(w) ==
  /\ workers[w].pc = "mark_processing"
  /\ \E fault \in BOOLEAN :
       IF fault
       THEN TaskRaise(w, "OperationalError")
       ELSE /\ documents' = update_status(workers[w].doc, "processing", "")
            /\ workers' = [workers EXCEPT ![w].pc = "create_analysis"]
  /\ UNCHANGED <<analyses, interventions, cost_items, staged, queue, run>>
  /\ UNCHANGED pricingVars
  /\ UNCHANGED <<ragVars, aiVars, lookupVars>>

\* the provisional Analysis of the task of w; the id is the table's next one
task_analysis(w) ==
  [id |-> Cardinality(analyses) + 1, document_id |-> workers[w].doc, completed |-> FALSE,
   report_path |-> "None", total_interventions |-> 0, total_cost |-> 0,
   assumptions |-> <<>>, warnings |-> <<>>]

\* process_document to its first commit: Analysis(...), db.add, db.commit();
\* the unique document_id makes the INSERT fail when the document has a row
TaskCreateAnalysis(w) ==
  /\ workers[w].pc = "create_analysis"
  /\ \E fault \in BOOLEAN :
       IF flush_fails_with([NoStaged EXCEPT !.analyses = {task_analysis(w)}])
       THEN TaskRaise(w, "IntegrityError") /\ UNCHANGED analyses
       ELSE IF fault
       THEN TaskRaise(w, "OperationalError") /\ UNCHANGED analyses
       ELSE /\ analyses' = analyses \cup {task_analysis(w)}
            /\ workers' = [workers EXCEPT ![w].pc = "pipeline"]
            /\ UNCHANGED documents
  /\ UNCHANGED <<interventions, cost_items, staged, queue, run>>
  /\ UNCHANGED pricingVars
  /\ UNCHANGED <<ragVars, aiVars, lookupVars>>

\* the Analysis of the task of w after the final commit, and the least a
\* returning run commits with it: one Intervention (no interventions raise)
task_final(a) == [a EXCEPT !.completed = TRUE, !.report_path = "report", !.total_interventions = 1]
task_intervention(a) ==
  [id |-> <<a.id, 1>>, document_id |-> a.document_id, intervention_type |-> "Safety Barrier",
   irc_standards |-> <<>>, irc_clauses |-> <<>>]

\* process_document after its first commit, steps 1 to 5: it raises after
\* db.rollback(), or its final commit succeeds and it returns
TaskPipeline(w) ==
  /\ workers[w].pc = "pipeline"
  /\ \E fault \in BOOLEAN :
       IF fault
       THEN /\ TaskRaise(w, "OperationalError")
            /\ UNCHANGED <<analyses, interventions>>
       ELSE /\ \E a \in {b \in analyses : b.document_id = workers[w].doc /\ ~b.completed} :
                 /\ analyses' = (analyses \ {a}) \cup {task_final(a)}
                 /\ interventions' = interventions \cup {task_intervention(a)}
            /\ workers' = [workers EXCEPT ![w].pc = "returned"]
            /\ UNCHANGED documents
  /\ UNCHANGED <<cost_items, staged, queue, run>>
  /\ UNCHANGED pricingVars
  /\ UNCHANGED <<ragVars, aiVars, lookupVars>>

\* process_document returned in worker w: update_status(COMPLETED); when
\* that raises, the task's except runs update_status(FAILED)
TaskMarkCompleted(w) ==
  /\ workers[w].pc = "returned"
  /\ \E fault \in BOOLEAN :
       IF fault
       THEN TaskRaise(w, "OperationalError")
       ELSE /\ documents' = update_status(workers[w].doc, "completed", "")
            /\ workers' = [workers EXCEPT ![w] = NoTask]
  /\ UNCHANGED <<analyses, interventions, cost_items, staged, queue, run>>
  /\ UNCHANGED pricingVars
  /\ UNCHANGED <<ragVars, aiVars, lookupVars>>

NextWorkers ==
  \/ \E w \in Workers, d \in Docs : worker_upload_document(w, d)
  \/ \E w \in Workers, d \in Docs : worker_analyze_document(w, d)
  \/ \E w \in Workers : TaskStart(w)
  \/ \E w \in Workers : TaskMarkProcessing(w)
  \/ \E w \in Workers : TaskCreateAnalysis(w)
  \/ \E w \in Workers : TaskPipeline(w)
  \/ \E w \in Workers : TaskMarkCompleted(w)

SpecWorkers == Init /\ [][NextWorkers]_vars

-----------------------------------------------------------------------------
(* Properties of the document run *)

Insufficient == "Insufficient text extracted from document"
NoInterventions == "No interventions found in document"

\* the rows a run created: ids carry the number of the run
rows_of_run(n) ==
  {i \in interventions : i.id[1] = n} \cup {c \in cost_items : c.id[1] = n}

\* the rows that belong to a document
rows_of_document(d) ==
  {i \in interventions : i.document_id = d}
  \cup {c \in cost_items : \E i \in interventions :
          i.id = c.intervention_id /\ i.document_id = d}

\* C1.  A run of process_document that ended by raising has left no
\* Intervention row and no CostItem row of its own in the committed tables,
\* also when a price lookup of the run committed or rolled back the shared
\* session.
C1_FailedRunLeavesNoRows ==
  (run.pc = "done" /\ run.raised) => rows_of_run(run.no) = {}

\* C2.  After the failure of a run on an empty or too short text (the
\* insufficient-content error) no Intervention, CostItem or Analysis row of
\* the document is committed.
C2_ShortTextNoRowsAtAll ==
  (run.pc = "done" /\ run.error = Insufficient) =>
     /\ rows_of_document(run.doc) = {}
     /\ \A a \in analyses : a.document_id # run.doc

C2_Witness ==
  /\ run.pc = "done" /\ run.error = Insufficient
  /\ Texts[documents[run.doc].file].len = 0
  /\ \E a \in analyses : a.document_id = run.doc

\* a text none of whose sentences contains a phrase of the vocabulary
no_keyword_sentence(text) ==
  \A i \in DOMAIN text.sents :
    \A k \in DOMAIN intervention_keywords :
      intervention_keywords[k] \notin text.sents[i].phrases

\* C3.  On a text of sufficient length without any keyword sentence,
\* extract_interventions yields the empty sequence; the run then fails with
\* the no-interventions error (unless the language pipeline itself raised),
\* which differs from the insufficient-content error, and the run has made
\* no standards, pricing or report call.
C3_NoKeywordsStops ==
  [][ ( /\ run.pc = "extract_interventions"
        /\ run' # run
        /\ no_keyword_sentence(Texts[run.text]) )
      => /\ Texts[run.text].len >= MinTextLen
         /\ extract_interventions(Texts[run.text]) = <<>>
         /\ run'.stage = "FAILED"
         /\ run'.error \in {NoInterventions, "AIError"}
         /\ NoInterventions # Insufficient
         /\ run'.calls \cap {"rag", "pricing", "report"} = {} ]_vars

C3_Witness ==
  /\ run.pc = "done" /\ run.error = NoInterventions
  /\ no_keyword_sentence(Texts[documents[run.doc].file])
  /\ run.calls = {}

\* C4.  When process_document raised, the run ends with the document FAILED
\* and processing_error equal to the message of the exception; when it
\* returned, the run ends with the document COMPLETED; a document is
\* COMPLETED only when its run committed the finalized analysis.
C4_TerminalStatus ==
  /\ run.pc = "done" =>
       IF run.raised
       THEN /\ documents[run.doc].status = "failed"
            /\ documents[run.doc].processing_error = run.error
            /\ run.stage = "FAILED"
       ELSE /\ documents[run.doc].status = "completed"
            /\ run.stage = "COMMITTED"
  /\ \A d \in Docs :
       documents[d].status = "completed" =>
         \E a \in analyses : a.document_id = d /\ a.completed

C4_Witness ==
  /\ run.pc = "done" /\ run.raised /\ run.error = "ReportError"
  /\ documents[run.doc].status = "failed"

Stages == <<"STARTED", "TEXT_EXTRACTED", "INTERVENTIONS_EXTRACTED", "PRICED",
            "REPORTED", "COMMITTED">>

stage_no(st) == CHOOSE k \in DOMAIN Stages : Stages[k] = st

\* the steps of process_document that can raise, and the stage each runs in
raising_step ==
  [create_analysis |-> "STARTED", extract_text |-> "STARTED",
   extract_interventions |-> "TEXT_EXTRACTED", intervention |-> "INTERVENTIONS_EXTRACTED",
   report |-> "PRICED", commit |-> "REPORTED"]

\* C5.  Within one run the stage moves only one step forward along STARTED,
\* TEXT_EXTRACTED, INTERVENTIONS_EXTRACTED, PRICED, REPORTED, COMMITTED, or
\* to FAILED; the extraction call is made in STARTED's successor only, a
\* price is resolved only after interventions were extracted, the report is
\* generated only after the last intervention was priced, the final commit
\* follows the report; a failure is possible in every stage before
\* COMMITTED, and after FAILED or COMMITTED the run enters no other stage.
C5_StageOrder ==
  /\ [][ run'.no = run.no /\ run'.stage # run.stage =>
           /\ run.stage \notin {"FAILED", "COMMITTED", "NONE"}
           /\ \/ run'.stage = "FAILED" /\ run'.from = run.stage
              \/ /\ run'.stage \in {Stages[k] : k \in DOMAIN Stages}
                 /\ stage_no(run'.stage) = stage_no(run.stage) + 1 ]_vars
  /\ [][ run'.no # run.no =>
           /\ run.stage \in {"NONE", "FAILED", "COMMITTED"}
           /\ run'.stage = "STARTED" ]_vars
  /\ [][ run'.no = run.no =>
           /\ ("ai" \in run'.calls \ run.calls => run.stage = "TEXT_EXTRACTED")
           /\ ("pricing" \in run'.calls \ run.calls => run.stage = "INTERVENTIONS_EXTRACTED")
           /\ ("report" \in run'.calls \ run.calls =>
                  run.stage = "PRICED" /\ run.idx = Len(run.ivs) /\ run.mi = 0)
           /\ (run'.stage = "PRICED" /\ run.stage # "PRICED" =>
                  run.idx = Len(run.ivs) /\ run.mi = Len(run.materials))
           /\ (run'.stage = "COMMITTED" /\ run.stage # "COMMITTED" =>
                  "report" \in run.calls) ]_vars
  /\ [](run.pc \in DOMAIN raising_step =>
          /\ run.stage = raising_step[run.pc]
          /\ ENABLED (Next /\ run'.stage = "FAILED" /\ run'.from = run.stage))
  /\ [](run.pc = "price" => run.stage = "INTERVENTIONS_EXTRACTED")

C5_Witness ==
  run.stage = "FAILED" /\ run.from = "REPORTED" /\ run.calls = {"ai", "rag", "pricing", "report"}

\* C6.  A document has at most one Analysis row.  A row appears only at the
\* start of a run, provisional (not completed, no report path); a row becomes
\* finalized only in the final commit of the run that created it, and a
\* finalized row never changes again.
C6_OneAnalysis ==
  /\ [](\A a, b \in analyses : a.document_id = b.document_id => a = b)
  /\ [][ \A a \in analyses' \ analyses :
           IF \A b \in analyses : b.id # a.id
           THEN /\ ~a.completed /\ a.report_path = "None"
                /\ run.pc = "create_analysis" /\ run.stage = "STARTED"
                /\ a.id = run.no /\ a.document_id = run.doc
           ELSE /\ a.completed /\ a.report_path # "None"
                /\ \E b \in analyses : b.id = a.id /\ ~b.completed /\ b \notin analyses'
                /\ a.id = run.no /\ a.document_id = run.doc
                /\ run.stage = "REPORTED" /\ run'.stage = "COMMITTED" ]_vars
  /\ [][ \A a \in analyses : a.completed => a \in analyses' ]_vars
  /\ [][ \A a \in analyses : \E b \in analyses' : b.id = a.id ]_vars

C6_Witness ==
  /\ run.pc = "done" /\ run.error = "IntegrityError"
  /\ Cardinality({a \in analyses : a.document_id = run.doc /\ a.completed}) = 1
  /\ Cardinality(analyses) = 1

-----------------------------------------------------------------------------
(* Properties of get_material_price.  last' is the record of the call a    *)
(* step makes; the caches the call found are those of the unprimed state.  *)

\* a step that is a call of get_material_price
is_call == last'.ret.kind # "none" /\ now' = now /\ redis_client' = redis_client

\* the fast cache yields an entry to the call: the client is connected, the
\* read does not raise and a live value is stored under the key
fast_holds ==
  redis_client /\ ~last'.fast_error /\ redis_get(last'.material_name, last'.unit) # {}

durable_holds == durable_valid(last'.material_name, last'.unit) # {}

tier_rank ==
  [fast |-> 1, durable |-> 2, reference |-> 3, cpwd |-> 4, gem |-> 5, fallback |-> 6]

\* C7.  The chain is walked in the order fast cache, durable cache, exact
\* reference lookup, external sources, fallback.  A fast entry is returned
\* when the fast cache yields one; otherwise a non-expired durable entry is
\* returned when one exists (and the call returns); the reference table is
\* consulted before any external source, an external source only when the
\* exact lookup found nothing, and the fallback only when the caches, the
\* exact lookup and the external sources found nothing.
C7_ChainOrder ==
  [][ is_call =>
        LET t == last'.trace
            m == last'.material_name
            u == last'.unit
            ok == last'.ret.kind = "ok"
        IN  /\ \A i, j \in DOMAIN t : i < j => tier_rank[t[i]] < tier_rank[t[j]]
            /\ fast_holds =>
                 /\ ok /\ last'.tier = "fast" /\ t = <<"fast">>
                 /\ \E r \in redis_get(m, u) : last'.ret.unit_rate = r.unit_rate
            /\ (~fast_holds /\ durable_holds /\ ok) =>
                 /\ last'.tier = "durable" /\ t[Len(t)] = "durable"
                 /\ \E e \in durable_first(m, u) : last'.ret.unit_rate = e.unit_rate
            /\ (\E i \in DOMAIN t : t[i] = "reference") =>
                 ~fast_holds /\ ~durable_holds
            /\ (\E i \in DOMAIN t : t[i] \in {"cpwd", "gem"}) =>
                 /\ \E i \in DOMAIN t : t[i] = "reference"
                 /\ database_get(m) = 0
            /\ (ok /\ ~fast_holds /\ ~durable_holds /\ database_get(m) # 0) =>
                 /\ last'.tier = "reference"
                 /\ last'.ret.unit_rate = material_database[database_get(m)].typical_rate
            /\ (\E i \in DOMAIN t : t[i] = "fallback") =>
                 /\ ~fast_holds /\ ~durable_holds /\ database_get(m) = 0
                 /\ ~fetch_from_cpwd_sor(m, u).found /\ ~fetch_from_gem(m, u).found
                 /\ \E i \in DOMAIN t : t[i] = "gem"
                 /\ last'.tier \in {"fuzzy", "generic"}
                 /\ (last'.tier = "generic" <=> fuzzy_match(m) = 0) ]_vars

C7_Witness ==
  /\ last.tier = "durable" /\ last.trace = <<"fast", "durable">>
  /\ redis_client /\ ~last.fast_error
  /\ \A r \in redis : ~(r.material_name = last.material_name /\ r.unit = last.unit)

\* C8 as written.  A durable hit adds 1 to the hit counter of the selected
\* entry, sets its last-accessed time and changes no other field and no
\* other entry; a fast hit changes no durable entry.
C8_DurableHitFrame ==
  [][ is_call /\ vars' # vars =>
        /\ last'.tier = "durable" =>
             \E e \in durable_first(last'.material_name, last'.unit) :
               price_cache' = (price_cache \ {e}) \cup
                 {[e EXCEPT !.cache_hits = @ + 1, !.last_accessed = now]}
        /\ last'.tier = "fast" => price_cache' = price_cache ]_vars

\* C8, amended.  A durable hit adds 1 to the hit counter of the selected
\* entry, sets its last-accessed time and, through the column's on-update
\* rule, its updated_at time; it changes no other field and no other entry;
\* a fast hit changes no durable entry.
C8_DurableHitFrameUpdatedAt ==
  [][ is_call /\ vars' # vars =>
        /\ last'.tier = "durable" =>
             \E e \in durable_first(last'.material_name, last'.unit) :
               price_cache' = (price_cache \ {e}) \cup
                 {[e EXCEPT !.cache_hits = @ + 1, !.last_accessed = now,
                            !.updated_at = now]}
        /\ last'.tier = "fast" => price_cache' = price_cache ]_vars

C8_Witness ==
  /\ last.tier = "durable"
  /\ \E e \in price_cache :
       /\ e.material_name = last.material_name /\ e.unit = last.unit
       /\ e.cache_hits = 1 /\ e.last_accessed > e.fetched_at
  /\ OtherRow \in price_cache

\* C9.  get_material_price returns a priced result and never raises, whatever
\* the caches hold and whichever cache operation fails; when nothing matches
\* the result is the generic rate, flagged is_estimate and
\* requires_verification.
C9_AlwaysPriced ==
  /\ last.ret.kind # "raised"
  /\ (last.ret.kind = "ok" /\ last.tier = "generic") =>
        /\ last.ret.unit_rate = generic_rate
        /\ last.ret.is_estimate /\ last.ret.requires_verification

\* C10.  Whatever tier answers, the returned total_cost is the requested
\* quantity times the returned unit_rate, and the returned quantity and unit
\* are the requested ones.
C10_TotalCost ==
  last.ret.kind = "ok" =>
    /\ last.ret.total_cost = last.quantity * last.ret.unit_rate
    /\ last.ret.quantity = last.quantity
    /\ last.ret.unit = last.unit

C10_Witness ==
  /\ last.tier = "fuzzy" /\ last.ret.kind = "ok"
  /\ last.ret.material_name # last.material_name
  /\ last.quantity > 1 /\ last.ret.unit_rate > 1


\* a call answered by the exact reference lookup or an external source
resolved_by_source == is_call /\ last'.tier \in {"reference", "cpwd", "gem"}

\* C11.  After a price is resolved from the reference table or an external
\* source, a failure of the fast-cache write, of the durable write or of
\* both is swallowed: the call returns the result it returns when both
\* writes succeed (same unit rate, source and reference).  The durable write
\* is attempted whether or not the fast-cache write failed; a failed write
\* leaves its cache layer as it was.
C11_WriteFailuresSwallowed ==
  [][ resolved_by_source =>
        LET m == last'.material_name
            u == last'.unit
            p == fetch_price_from_sources(m, u)
            both_ok == cache_price(m, u, p, NoFaults)
        IN  /\ last'.ret = priced(m, last'.quantity, u, p.unit_rate, p.source,
                                  p.reference, now, FALSE)
            /\ last'.writes = IF redis_client THEN <<"fast", "durable">> ELSE <<"durable">>
            /\ redis' = IF "fast" \in last'.write_failed THEN redis ELSE both_ok.redis
            /\ price_cache' = IF "durable" \in last'.write_failed
                              THEN price_cache ELSE both_ok.price_cache ]_vars

C11_Witness ==
  /\ last.tier = "reference" /\ last.ret.kind = "ok"
  /\ last.write_failed = {"fast", "durable"}
  /\ last.writes = <<"fast", "durable">>
  /\ last.ret.unit_rate = material_database[database_get(last.material_name)].typical_rate


\* the entry carries the price the call returned
carries(entry, ret) ==
  /\ entry.unit_rate = ret.unit_rate
  /\ entry.source = ret.source
  /\ entry.source_reference = ret.source_reference

\* C12.  After a price is resolved from the reference table or an external
\* source with both cache layers available, the fast cache and the durable
\* cache each hold a live entry for that (material, unit) carrying the
\* returned unit rate, source and reference when the call returns.  The next
\* lookup of the same key within the validity window that returns is served
\* from a cache, with the same unit rate, and consults neither the reference
\* table nor an external source.
C12_WriteBackServesNext ==
  [][ /\ (resolved_by_source /\ last'.writes = <<"fast", "durable">>
                             /\ last'.write_failed = {}) =>
           /\ \E r \in redis' :
                /\ r.material_name = last'.material_name /\ r.unit = last'.unit
                /\ now < r.expires_at /\ carries(r, last'.ret)
           /\ \E e \in price_cache' :
                /\ e.material_name = last'.material_name /\ e.unit = last'.unit
                /\ e.valid_until > now /\ e.valid_until = now + ValidDays
                /\ carries(e, last'.ret)
      /\ (/\ is_call /\ last'.ret.kind = "ok"
          /\ last.tier \in {"reference", "cpwd", "gem"}
          /\ last.writes = <<"fast", "durable">> /\ last.write_failed = {}
          /\ last'.material_name = last.material_name /\ last'.unit = last.unit
          /\ now < last.ret.fetched_at + ValidDays) =>
           /\ last'.tier \in {"fast", "durable"}
           /\ last'.ret.from_cache
           /\ last'.ret.unit_rate = last.ret.unit_rate
           /\ \A i \in DOMAIN last'.trace :
                last'.trace[i] \notin {"reference", "cpwd", "gem", "fallback"} ]_vars

\* the durable entry written by a reference resolve on day 0 answers the
\* next lookup a day later, after the fast entry has expired
C12_Witness ==
  /\ last.tier = "durable" /\ last.ret.from_cache /\ now = REDIS_CACHE_TTL
  /\ last.material_name = "Steel Crash Barrier"
  /\ last.ret.unit_rate = material_database[database_get(last.material_name)].typical_rate
  /\ \E e \in price_cache :
       /\ e.material_name = last.material_name /\ e.fetched_at = 0 /\ e.cache_hits = 1


\* C13.  Every result produced from a reference-table exact hit or a fuzzy
\* hit is flagged is_estimate; a result from the generic rate is flagged
\* both is_estimate and requires_verification.
C13_EstimateFlags ==
  /\ last.tier \in {"reference", "fuzzy"} => last.ret.is_estimate
  /\ last.tier = "generic" => last.ret.is_estimate /\ last.ret.requires_verification

\* an exact reference hit has been returned
C13_Witness ==
  /\ last.tier = "reference" /\ last.ret.kind = "ok"
  /\ last.material_name = "Steel Crash Barrier"


\* a step of the pricing loop in which get_material_price raised
pricing_raised == run.pc = "price" /\ run' # run /\ last'.ret.kind = "raised"

\* C14.  When the price resolution of one material raises during a run, the
\* exception is caught: a warning naming the material is appended, no
\* CostItem is created for it, the loop goes on to the remaining materials
\* and the later interventions, and the run is not failed by it (no later
\* step fails on the session state the swallowed exception left behind).
C14_PricingFailureTolerated ==
  [][ /\ pricing_raised =>
           LET name == run.materials[run.mi].name
               lastm == run.mi = Len(run.materials)
           IN  /\ run'.stage # "FAILED"
               /\ IF lastm
                  THEN run'.warnings = run.warnings \o run.cd_warnings
                                         \o <<message("Failed to get price for", name)>>
                  ELSE run'.cd_warnings = run.cd_warnings
                                          \o <<message("Failed to get price for", name)>>
               /\ \A c \in staged'.cost_items \cup cost_items' :
                    c.id # <<run.no, run.idx, run.mi>>
               /\ run'.pc = IF ~lastm THEN "price"
                            ELSE IF last_intervention THEN "report" ELSE "intervention"
      /\ run'.stage = "FAILED" => run'.error # "PendingRollbackError" ]_vars

\* a run went on after a price resolution raised and was committed with the
\* warning in its analysis
C14_Witness ==
  /\ run.pc = "returned" /\ run.stage = "COMMITTED"
  /\ \E a \in analyses : a.id = run.no /\ a.completed /\ a.warnings # <<>>


\* the rank of the first hit with the code
first_hit_of(code, hits) ==
  CHOOSE i \in DOMAIN hits :
    hits[i].code = code /\ \A j \in 1..(i - 1) : hits[j].code # code

\* max(0, 1 - min(distance, 1)), in hundredths
spec_relevance(distance) ==
  LET m == IF distance < 100 THEN distance ELSE 100
  IN  IF 100 - m > 0 THEN 100 - m ELSE 0

\* what C16 says of a call apart from the range of the score: the index is
\* asked for 2 * top_k hits; at most top_k entries are returned, their codes
\* pairwise distinct; each entry is taken from the first hit of its code, the
\* entries are in the order of those hits; a clause hit surfaces its clause
\* id; the score is max(0, 1 - min(distance, 1))
selection_of_call ==
  LET std == rag_found.standards
      hits == rag_found.hits
      top_k == rag_req.top_k
  IN  /\ rag_found.n_results = 2 * top_k
      /\ ~rag_found.raised => hits = SubSeq(rag_req.ranking, 1, 2 * top_k)
      /\ Len(std) <= top_k
      /\ \A a, b \in DOMAIN std : a # b => std[a].code # std[b].code
      /\ \A a \in DOMAIN std :
           /\ \E i \in DOMAIN hits : hits[i].code = std[a].code
           /\ LET h == hits[first_hit_of(std[a].code, hits)]
              IN  /\ std[a].matched_clause = h.clause
                  /\ std[a].relevance_score = spec_relevance(h.distance)
      /\ \A a, b \in DOMAIN std :
           a < b => first_hit_of(std[a].code, hits) < first_hit_of(std[b].code, hits)

\* C16 as written.  find_relevant_standards(candidate, top_k) requests
\* 2 * top_k hits and returns at most top_k entries with pairwise distinct
\* codes, each taken from the first hit of its code in rank order and in the
\* order of those hits; a clause hit surfaces its clause id as
\* matched_clause; the relevance score is max(0, 1 - min(distance, 1)), a
\* value in [0, 1] for every distance, negative ones included.
C16_SelectionAndScore ==
  (rag_found.called /\ rag_found.queried) =>
    /\ selection_of_call
    /\ \A a \in DOMAIN rag_found.standards :
         /\ rag_found.standards[a].relevance_score >= 0
         /\ rag_found.standards[a].relevance_score <= 100

\* C16 amended.  As C16, with the score in [0, 1] for every non-negative
\* distance; the score of a hit at a negative distance d is 1 - d.
C16_SelectionAndScoreNonNegative ==
  (rag_found.called /\ rag_found.queried) =>
    /\ selection_of_call
    /\ \A a \in DOMAIN rag_found.standards :
         LET h == rag_found.hits[first_hit_of(rag_found.standards[a].code, rag_found.hits)]
         IN  IF h.distance >= 0
             THEN /\ rag_found.standards[a].relevance_score >= 0
                  /\ rag_found.standards[a].relevance_score <= 100
             ELSE rag_found.standards[a].relevance_score = 100 - h.distance

\* a call that dropped a later hit of a code already taken, returned top_k = 2
\* entries, one of them a clause hit, one with a score strictly inside (0, 1)
C16_Witness ==
  /\ rag_found.called /\ ~rag_found.raised /\ rag_req.top_k = 2
  /\ Len(rag_found.hits) = 4 /\ Len(rag_found.standards) = 2
  /\ rag_found.hits[1].code = rag_found.hits[2].code
  /\ \E a \in DOMAIN rag_found.standards : rag_found.standards[a].matched_clause # "None"
  /\ \E a \in DOMAIN rag_found.standards :
       rag_found.standards[a].relevance_score \in 1..99


\* the exceptions of the flush that follows find_relevant_standards
flush_errors == {"OperationalError", "PendingRollbackError", "IntegrityError"}

\* C15.  When the index query of find_relevant_standards raises, the call
\* returns an empty list instead of raising and the run continues: the
\* intervention is recorded with empty standard and clause lists and goes on
\* to pricing; the step fails the run only when the flush of the row raises.
C15_RetrievalFailureTolerated ==
  [][ /\ (run.pc = "intervention" /\ run'.pc = "price" /\ run'.rag_raised) =>
           /\ \E i \in staged'.interventions :
                /\ i.id = run'.iv_id
                /\ i.irc_standards = <<>> /\ i.irc_clauses = <<>>
           /\ run'.stage # "FAILED"
           /\ run'.materials # <<>> /\ run'.mi = 1
      /\ (run.pc = "intervention" /\ run'.stage = "FAILED") =>
           run'.error \in flush_errors
      /\ (run.pc = "intervention" /\ run'.pc = "price" /\ ~run'.rag_raised) =>
           \E i \in staged'.interventions :
              i.id = run'.iv_id /\ Len(i.irc_standards) = DefaultTopK ]_vars

\* the intervention whose retrieval raised has its first material priced
C15_Witness ==
  /\ run.pc = "price" /\ run.rag_raised /\ run.mi = 2
  /\ \E i \in staged.interventions \cup interventions :
       i.id = run.iv_id /\ i.irc_standards = <<>> /\ i.irc_clauses = <<>>
  /\ \E c \in staged.cost_items \cup cost_items : c.intervention_id = run.iv_id


\* the number of documents of the index with the code and the clause id
\* ("None" for the document of the whole standard)
copies(index, code, clause) ==
  Cardinality({k \in DOMAIN index.docs :
                 index.docs[k].code = code /\ index.docs[k].clause = clause})

\* the index holds one document per standard code, one per (code, clause id)
\* and nothing else
holds_corpus_once(index) ==
  /\ \A s \in DOMAIN irc_standards :
       /\ copies(index, irc_standards[s].code, "None") = 1
       /\ \A c \in DOMAIN irc_standards[s].clauses :
            copies(index, irc_standards[s].code, irc_standards[s].clauses[c]) = 1
  /\ \A k, l \in DOMAIN index.docs : k # l => index.docs[k].id # index.docs[l].id
  /\ Len(index.docs) = Len(corpus_docs)

\* C17.  Running the index build twice does not duplicate documents: after
\* any number of initializations the index of the initialized service holds
\* exactly one document per standard code and one per (code, clause id).
C17_IndexHoldsCorpusOnce ==
  rag_service.up => holds_corpus_once(rag_service.mem)

\* a second initialization found the index of the first and skipped the build
C17_Witness ==
  /\ rag_service.up /\ rag_service.irc_standards_db = {}
  /\ chroma.exists /\ holds_corpus_once(chroma) /\ holds_corpus_once(rag_service.mem)


\* the key the merge compares
merge_key(iv) == <<iv.intervention_type, iv.location, iv.chainage>>

\* the first candidate of the list with the key of iv
first_with_key(ivs, iv) ==
  ivs[CHOOSE k \in DOMAIN ivs :
        /\ merge_key(ivs[k]) = merge_key(iv)
        /\ \A j \in 1..(k - 1) : merge_key(ivs[j]) # merge_key(iv)]

\* C18.  For every candidate list, the result of _merge_similar_interventions
\* holds exactly one candidate per distinct (type, location, chainage) key,
\* that candidate is the first with the key in sentence order, whatever the
\* confidence of the later ones, and the retained candidates keep their
\* relative order.
C18_FirstOfEachKeyKept ==
  ai_out.op = "merge" =>
    LET ivs == ai_in.interventions
        unique == ai_out.unique
    IN  /\ \A k \in DOMAIN ivs :
             Cardinality({u \in DOMAIN unique : merge_key(unique[u]) = merge_key(ivs[k])}) = 1
        /\ \A u \in DOMAIN unique :
             /\ \E k \in DOMAIN ivs : unique[u] = ivs[k]
             /\ unique[u] = first_with_key(ivs, unique[u])
        /\ \A u, v \in DOMAIN unique :
             u < v => unique[u].description < unique[v].description

\* a later candidate with the key of an earlier one and a higher confidence
\* was dropped, and two candidates were retained
C18_Witness ==
  /\ ai_out.op = "merge"
  /\ Len(ai_out.unique) = 2
  /\ \E j, k \in DOMAIN ai_in.interventions :
       /\ j < k
       /\ merge_key(ai_in.interventions[j]) = merge_key(ai_in.interventions[k])
       /\ ai_in.interventions[j].confidence_score < ai_in.interventions[k].confidence_score
       /\ \E u \in DOMAIN ai_out.unique : ai_out.unique[u] = ai_in.interventions[j]
       /\ \A u \in DOMAIN ai_out.unique : ai_out.unique[u] # ai_in.interventions[k]

\* the score the scoring rule gives, in hundredths
rule_score(words, keywords, quantities) ==
  LET share == IF 10 * keywords < 30 THEN 10 * keywords ELSE 30
      sum == 50 + share + (IF quantities >= 1 THEN 20 ELSE 0)
                + (IF words \in 10..100 THEN 10 ELSE 0)
  IN  IF sum > 100 THEN 100 ELSE sum

\* C19.  The score is 0.5, plus 0.1 per matched keyword capped at 0.3, plus
\* 0.2 if at least one quantity was extracted, plus 0.1 if the word count is
\* in [10, 100]; one more matched keyword, one more quantity or a word count
\* moved into [10, 100] never decreases it, and it lies in [0, 1].
C19_ConfidenceMonotonicBounded ==
  ai_out.op = "confidence" =>
    LET s == ai_in.sentence
        kw == ai_in.keywords
        q == ai_in.quantities
    IN  /\ ai_out.score = rule_score(s.words, Len(kw), Len(q))
        /\ ai_out.score <=
             calculate_confidence(s, kw \o <<intervention_keywords[Len(kw) + 1]>>, q)
        /\ ai_out.score <=
             calculate_confidence(s, kw, q \o <<[value |-> 1, unit |-> "m"]>>)
        /\ \A w \in 10..100 :
             ai_out.score <= calculate_confidence([s EXCEPT !.words = w], kw, q)
        /\ 0 <= ai_out.score /\ ai_out.score <= 100

\* a sentence of 10 words with more keywords than the cap counts and a
\* quantity: the sum is above 1 and the score is 1
C19_Witness ==
  /\ ai_out.op = "confidence"
  /\ Len(ai_in.keywords) > 3 /\ ai_in.quantities # <<>> /\ ai_in.sentence.words = 10
  /\ ai_out.score = 100


\* the text holds the operand a and, after it, the operand b
records_operands(raw_text, a, b) ==
  \E i, j \in DOMAIN raw_text :
    /\ i + Len(a) <= j /\ j + Len(b) - 1 <= Len(raw_text)
    /\ SubSeq(raw_text, i, i + Len(a) - 1) = a
    /\ SubSeq(raw_text, j, j + Len(b) - 1) = b

\* a quantity of the two-number form with the operands a and b and the unit u
two_number_quantity(q, a, b, u) ==
  /\ "dimensions" \in DOMAIN q
  /\ q.dimensions = <<float(a), float(b)>>
  /\ q.value = float(a) * float(b)
  /\ q.unit = u
  /\ records_operands(q.raw_text, a, b)

\* C20.  For the input "10 x 20 m" quantity extraction yields a quantity of
\* value 200.0, unit "m" and dimensions [10.0, 20.0]; for every input
\* "A x B u" with u a length unit, the quantity recorded for the form has
\* value A x B, unit u, dimensions [A, B] and a raw text with both operands.
C20_TwoNumberForm ==
  ai_out.op = "quantities" =>
    /\ \E k \in DOMAIN ai_out.quantities :
         two_number_quantity(ai_out.quantities[k], ai_in.a, ai_in.b, ai_in.u)
    /\ ai_in.text = <<"1", "0", " ", "x", " ", "2", "0", " ", "m">> =>
         \E k \in DOMAIN ai_out.quantities :
           /\ "dimensions" \in DOMAIN ai_out.quantities[k]
           /\ ai_out.quantities[k].value = 2000000
           /\ ai_out.quantities[k].unit = <<"m">>
           /\ ai_out.quantities[k].dimensions = <<1000, 2000>>

\* "10 x 20 m" was parsed: 200.0 m with the dimensions [10.0, 20.0]
C20_Witness ==
  /\ ai_out.op = "quantities"
  /\ ai_in.text = <<"1", "0", " ", "x", " ", "2", "0", " ", "m">>
  /\ \E k \in DOMAIN ai_out.quantities :
       /\ two_number_quantity(ai_out.quantities[k], <<"1", "0">>, <<"2", "0">>, <<"m">>)
       /\ ai_out.quantities[k].value = 2000000
       /\ ai_out.quantities[k].dimensions = <<1000, 2000>>

-----------------------------------------------------------------------------
\* a run whose extracted text is the one-sentence crash-barrier text
barrier_run == run.text # 0 /\ Texts[run.text] = BarrierText

\* C21.  End to end on the one-sentence text "A steel crash barrier of 150 m
\* was installed at Km 12+300 near the village school, IRC 35 compliant.":
\* extraction yields exactly one candidate, of type "Safety Barrier", chainage
\* "Km 12+300" and quantity 150 m; a lookup of "Steel Crash Barrier" that is
\* not served from a cache is answered by the reference table, and the
\* material is priced at the rate 1850 times 150 (quantities and totals in
\* hundredths); the finalized Analysis has total_interventions = 1.
C21_BarrierScenario ==
  /\ (barrier_run /\ "ai" \in run.calls) =>
        /\ Len(run.ivs) = 1
        /\ run.ivs[1].intervention_type = "Safety Barrier"
        /\ run.ivs[1].chainage = <<"K", "m", " ", "1", "2", "+", "3", "0", "0">>
        /\ run.ivs[1].quantities = << [value |-> 150, unit |-> "m"] >>
  /\ (barrier_run /\ "pricing" \in run.calls /\ last.ret.kind = "ok"
        /\ last.material_name = "Steel Crash Barrier") =>
        /\ last.quantity = 150 * 100
        /\ last.ret.unit_rate = 1850
        /\ last.ret.total_cost = 1850 * 150 * 100
        /\ ~last.ret.from_cache => last.tier = "reference"
  /\ \A a \in analyses :
        (a.completed /\ Texts[documents[a.document_id].file] = BarrierText) =>
          a.total_interventions = 1

\* the run on the crash-barrier text went through the final commit with the
\* barrier priced from the reference table
C21_Witness ==
  /\ barrier_run /\ run.pc = "returned"
  /\ \E a \in analyses : a.document_id = run.doc /\ a.completed /\ a.total_interventions = 1
  /\ \E c \in cost_items :
        /\ c.intervention_id = <<run.no, 1>>
        /\ c.material_name = "Steel Crash Barrier"
        /\ c.unit_rate = 1850 /\ c.total_cost = 1850 * 150 * 100

-----------------------------------------------------------------------------
\* the entries of the shared pair that the volatile cache holds
shared_fast == {r \in redis : r.material_name = SharedName /\ r.unit = SharedUnit}

\* a step leaves the rate, the source and the validity window of every
\* durable entry as they were
durable_entries_kept ==
  \A e \in price_cache : \E o \in price_cache' :
     /\ o.id = e.id
     /\ o.unit_rate = e.unit_rate /\ o.source = e.source
     /\ o.source_reference = e.source_reference
     /\ o.valid_from = e.valid_from /\ o.valid_until = e.valid_until

\* C22.  Under every interleaving of the cache operations of concurrent
\* get_material_price calls for the same (material, unit): every entry a
\* lookup reads from a cache is an entry some single write put there whole;
\* no step changes the unit rate, the source or the validity window of an
\* existing durable entry (a refreshed price adds an entry); the volatile
\* cache holds at most one entry for the pair, the one the last setex wrote.
C22_SharedCaches ==
  /\ [](\A p \in Callers : lookups[p].read \subseteq writes.whole)
  /\ [](shared_fast \subseteq writes.fast /\ Cardinality(shared_fast) <= 1)
  /\ [][durable_entries_kept]_vars

\* a caller has read the entry another caller set while that caller is still
\* before its durable write
C22_Witness ==
  /\ price_cache = {}
  /\ shared_fast # {}
  /\ \E p, q \in Callers :
        /\ p # q
        /\ lookups[p].pc = "returned" /\ lookups[p].read # {}
        /\ lookups[q].pc = "add"

-----------------------------------------------------------------------------
\* C23.  Every run of the background task terminates with the document
\* COMPLETED or FAILED: a run in progress on a document leads to the task
\* having ended with the document in status COMPLETED or FAILED.
C23_RunsTerminate ==
  \A d \in Docs :
    (run.doc = d /\ run.pc \notin {"idle", "done"})
      ~> (run.doc = d /\ run.pc = "done" /\ documents[d].status \in {"completed", "failed"})

\* the task has ended and the document is left in PROCESSING
C23_Witness ==
  /\ run.pc = "done" /\ run.raised /\ run.error = "ReportError"
  /\ documents[run.doc].status = "processing"

-----------------------------------------------------------------------------
\* C24: for an intervention with at least one extracted quantity, every
\* material rule of its type (rules in m, nos, kg and sqm alike) derives
\* ratio times the value of the first extracted quantity whose unit is
\* compatible with the rule's unit, and ratio times the first extracted
\* quantity only when no extracted quantity has a compatible unit.
C24_CompatibleQuantity ==
  (ai_out.op = "materials" /\ ai_in.quantities # <<>>) =>
    LET quantities == ai_in.quantities
        rules == material_rules(ai_in.intervention_type)
        compatible(r) == {k \in DOMAIN quantities : unit_compatible(quantities[k], rules[r])}
        first(r) == CHOOSE k \in compatible(r) : \A j \in compatible(r) : k <= j
    IN  /\ Len(ai_out.materials) = Len(rules)
        /\ \A r \in DOMAIN rules :
             ai_out.materials[r].quantity =
               rules[r].ratio * (IF compatible(r) # {} THEN quantities[first(r)].value
                                 ELSE quantities[1].value)

\* a sign board (a rule in sqm) derived from "5 nos" although "4 sqm" follows
C24_Witness ==
  /\ ai_out.op = "materials"
  /\ ai_in.intervention_type = "Signage"
  /\ ai_in.quantities = <<[value |-> 5, unit |-> "nos"], [value |-> 4, unit |-> "sqm"]>>
  /\ ai_out.materials[1].name = "Traffic Sign Board"
  /\ ai_out.materials[1].quantity = 5 * 100

-----------------------------------------------------------------------------
\* the Analysis row of the run that has just returned
finalized == {a \in analyses : a.id = run.no /\ a.completed}

\* the names an entry about the intervention k of the run can carry: its
\* type and the names of its materials
names_of(k) ==
  {run.ivs[k].intervention_type}
  \cup {material_rules(run.ivs[k].intervention_type)[r].name :
          r \in DOMAIN material_rules(run.ivs[k].intervention_type)}

\* C25: when an intervention of a run has no extracted quantities, each of
\* its materials is derived with the default quantity, 100 times the ratio
\* of its rule, and the assumptions stored in the finalized Analysis hold a
\* material-estimation assumption for that intervention (read broadly: any
\* assumption that names the intervention's type or one of its materials).
C25_DefaultQuantityAssumed ==
  run.pc = "returned" =>
    \A k \in DOMAIN run.ivs :
      run.ivs[k].quantities = <<>> =>
        LET rules == material_rules(run.ivs[k].intervention_type)
        IN  /\ \A c \in cost_items :
                 c.intervention_id = <<run.no, k>> =>
                   \E r \in DOMAIN rules :
                     /\ rules[r].name = c.material_name
                     /\ c.quantity = DefaultQuantity * rules[r].ratio
            /\ \A a \in finalized :
                 \E i \in DOMAIN a.assumptions : a.assumptions[i][2] \in names_of(k)

\* a run over the guardrail text has returned: the barrier and its posts are
\* stored with the default quantities and the finalized Analysis holds no
\* assumption about them
C25_Witness ==
  /\ run.pc = "returned" /\ Texts[run.text] = GuardrailText
  /\ run.ivs[1].intervention_type = "Safety Barrier" /\ run.ivs[1].quantities = <<>>
  /\ \E c \in cost_items :
       /\ c.intervention_id = <<run.no, 1>> /\ c.material_name = "Steel Crash Barrier"
       /\ c.quantity = 100 * 100
  /\ \E c \in cost_items :
       /\ c.intervention_id = <<run.no, 1>> /\ c.material_name = "Guardrail Post"
       /\ c.quantity = 100 * 33
  /\ \E a \in finalized :
       \A i \in DOMAIN a.assumptions : a.assumptions[i][2] \notin names_of(1)

-----------------------------------------------------------------------------
\* the price results of the run, in the order they were obtained, that
\* carry is_estimate, and those that carry requires_verification or raised
with_estimate(p) == p.is_estimate
with_warning(p) == p.requires_verification \/ p.raised

\* C26: in a successful run, the assumptions of the finalized Analysis name
\* exactly the materials whose price result carried is_estimate, and its
\* warnings exactly the materials whose result carried requires_verification
\* or whose pricing raised, each list in the order in which the
\* interventions and their materials were processed; a material whose
\* result carried neither flag and whose pricing did not raise has no entry.
C26_FlagsPropagate ==
  run.pc = "returned" =>
    \A a \in finalized :
      LET est == SelectSeq(run.prices, with_estimate)
          wrn == SelectSeq(run.prices, with_warning)
      IN  /\ a.assumptions =
               [i \in DOMAIN est |-> <<"Estimated rate used for", est[i].name>>]
          /\ a.warnings =
               [i \in DOMAIN wrn |->
                  <<IF wrn[i].raised THEN "Failed to get price for"
                    ELSE "Price verification required for", wrn[i].name>>]
          /\ \A i \in 2..Len(run.prices) :
               \/ run.prices[i - 1].intervention < run.prices[i].intervention
               \/ /\ run.prices[i - 1].intervention = run.prices[i].intervention
                  /\ run.prices[i - 1].material < run.prices[i].material

\* a returned run in which one material was priced with neither flag, one
\* with both, and the pricing of one raised
C26_Witness ==
  /\ run.pc = "returned" /\ finalized # {}
  /\ \E i, j, k \in DOMAIN run.prices :
       /\ ~run.prices[i].is_estimate /\ ~with_warning(run.prices[i])
       /\ run.prices[j].is_estimate /\ run.prices[j].requires_verification
       /\ run.prices[k].raised
       /\ i < j

-----------------------------------------------------------------------------
\* the sum of the values of a dict
RECURSIVE sum_values(_)
sum_values(f) ==
  IF DOMAIN f = {} THEN 0
  ELSE LET t == CHOOSE t \in DOMAIN f : TRUE
       IN  f[t] + sum_values([x \in DOMAIN f \ {t} |-> f[x]])

\* the sum of total_cost over the price results that did not raise
RECURSIVE sum_priced(_)
sum_priced(prices) ==
  IF prices = <<>> THEN 0
  ELSE (IF Head(prices).raised THEN 0 ELSE Head(prices).total_cost) + sum_priced(Tail(prices))

\* the Intervention rows the run that has just returned created
created == {i \in interventions : i.id[1] = run.no}

\* C27: a successful run has created exactly one Intervention row per
\* surviving candidate, in extraction order; the finalized Analysis has
\* total_interventions equal to the number of surviving candidates, a
\* count-by-type summary with one key per distinct type whose counts sum
\* to total_interventions, and total_cost equal to the sum of total_cost
\* over the materials whose pricing did not raise.
C27_Aggregation ==
  run.pc = "returned" =>
    /\ Cardinality(created) = Len(run.ivs)
    /\ \A k \in DOMAIN run.ivs :
         \E i \in created :
           /\ i.id = <<run.no, k>> /\ i.document_id = run.doc
           /\ i.intervention_type = run.ivs[k].intervention_type
    /\ finalized # {}
    /\ \A a \in finalized :
         /\ a.total_interventions = Len(run.ivs)
         /\ DOMAIN a.summary_data.interventions_by_type =
              {run.ivs[k].intervention_type : k \in DOMAIN run.ivs}
         /\ sum_values(a.summary_data.interventions_by_type) = a.total_interventions
         /\ a.total_cost = sum_priced(run.prices)

\* a returned run with two candidates of one type, priced at a cost above
\* zero, with the pricing of one material raised
C27_Witness ==
  /\ run.pc = "returned" /\ Len(run.ivs) = 2
  /\ run.ivs[1].intervention_type = run.ivs[2].intervention_type
  /\ \E i \in DOMAIN run.prices : run.prices[i].raised
  /\ \E a \in finalized :
       /\ a.total_interventions = 2 /\ a.total_cost > 0
       /\ a.summary_data.interventions_by_type[run.ivs[1].intervention_type] = 2

-----------------------------------------------------------------------------
\* the tiers a call consulted
consulted(call) == {call.trace[i] : i \in DOMAIN call.trace}

\* C28: whatever rows the durable cache holds for a (material, unit) pair,
\* a lookup that reaches the durable cache and returns consults exactly one
\* row, one with the most recent fetch time among the rows of the pair
\* whose validity has not expired at lookup time; an expired row is never
\* returned, and when every row of the pair is expired the lookup goes on
\* to the reference table.
C28_DurableSelection ==
  [][LET call == last'
         valid == {e \in price_cache : /\ e.material_name = call.material_name
                                       /\ e.unit = call.unit
                                       /\ e.valid_until > now}
     IN  (/\ last' # last \/ price_cache' # price_cache \/ redis' # redis
          /\ "durable" \in consulted(call)
          /\ call.ret.kind = "ok") =>
           IF valid # {}
           THEN /\ call.tier = "durable" /\ call.ret.from_cache
                /\ \E e \in valid :
                     /\ \A o \in valid : o.fetched_at <= e.fetched_at
                     /\ call.ret.fetched_at = e.fetched_at
                     /\ call.ret.unit_rate = e.unit_rate
                     /\ price_cache \ price_cache' = {e}
                     /\ \E n \in price_cache' :
                          /\ price_cache' \ price_cache = {n}
                          /\ n.id = e.id /\ n.cache_hits = e.cache_hits + 1
           ELSE /\ call.tier # "durable" /\ ~call.ret.from_cache
                /\ "reference" \in consulted(call)
                /\ price_cache \subseteq price_cache'
    ]_vars

\* a lookup has been answered from the newest of two unexpired rows of the
\* pair while the store also holds an expired row of it
C28_Witness ==
  /\ last.tier = "durable" /\ last.material_name = SharedName
  /\ \E x, o, e \in price_cache :
       /\ x.material_name = SharedName /\ x.valid_until <= now /\ x.cache_hits = 0
       /\ o.material_name = SharedName /\ o.valid_until > now /\ o.cache_hits = 0
       /\ e.material_name = SharedName /\ e.valid_until > now /\ e.cache_hits = 1
       /\ o.fetched_at < e.fetched_at
       /\ last.ret.fetched_at = e.fetched_at

-----------------------------------------------------------------------------
\* the place of a source among the sources a call attempted (0: not attempted)
attempt(call, source) ==
  IF \E i \in DOMAIN call.attempted : call.attempted[i] = source
  THEN CHOOSE i \in DOMAIN call.attempted : call.attempted[i] = source
  ELSE 0

\* C29: the external sources are attempted in the order CPWD SOR, GeM; GeM
\* is attempted only when CPWD SOR yielded nothing; the first source with a
\* result gives the price; a source that raises, times out or returns
\* nothing counts as no result, and when neither has a result the lookup
\* is answered by the fallback (fuzzy reference match, then generic rate)
\* and does not raise.
C29_ExternalSources ==
  ai_out.op = "sources" =>
    LET call == ai_out.price
        cpwd == attempt(call, "cpwd")
        gem == attempt(call, "gem")
    IN  /\ call.ret.kind = "ok"
        /\ gem # 0 => (cpwd # 0 /\ cpwd < gem /\ ai_in.cpwd # "price")
        /\ cpwd # 0 =>
             CASE ai_in.cpwd = "price" ->
                    /\ gem = 0
                    /\ call.ret.source = "cpwd" /\ call.ret.unit_rate = quoted.cpwd
               [] ai_in.cpwd # "price" /\ ai_in.gem = "price" ->
                    /\ gem # 0
                    /\ call.ret.source = "gem" /\ call.ret.unit_rate = quoted.gem
               [] OTHER ->
                    /\ gem # 0
                    /\ call.tier \in {"fuzzy", "generic"}
                    /\ call.ret.is_estimate
                    /\ call.tier = "generic" => call.ret.unit_rate = generic_rate
                    /\ call.tier = "fuzzy" =>
                         call.ret.unit_rate =
                           material_database[fuzzy_match(ai_in.material_name)].typical_rate

\* CPWD SOR timed out and GeM raised: the lookup was answered at the generic rate
C29_Witness ==
  /\ ai_out.op = "sources"
  /\ ai_in.cpwd = "timeout" /\ ai_in.gem = "raised"
  /\ ai_out.price.attempted = <<"reference", "cpwd", "gem">>
  /\ ai_out.price.tier = "generic" /\ ai_out.price.ret.kind = "ok"

-----------------------------------------------------------------------------
\* the categories in the order of the table
TableOrder ==
  <<"Safety Barrier", "Traffic Calming", "Signage", "Road Marking", "Pedestrian Facility",
    "Illumination", "Delineation", "Drainage", "Junction Improvement", "Road Furniture">>

\* C30: the type assigned to a sentence is the first category, in the order
\* Safety Barrier, Traffic Calming, Signage, Road Marking, Pedestrian
\* Facility, Illumination, Delineation, Drainage, Junction Improvement, Road
\* Furniture, one of whose keywords occurs in the sentence regardless of
\* case; a sentence with keywords of several categories gets the earliest
\* one; a sentence with none gets the generic type, even when a keyword of
\* the vocabulary occurs in it.
C30_FirstCategory ==
  ai_out.op = "classify" =>
    LET text == lower(ai_in.sentence)
        hits == {i \in DOMAIN categories :
                   \E kw \in categories[i].kws : StrIn(KeywordSpelling[kw], text)}
    IN  /\ [i \in DOMAIN categories |-> categories[i].name] = TableOrder
        /\ ai_out.type = IF hits = {} THEN "General Safety Intervention"
                         ELSE TableOrder[CHOOSE i \in hits : \A j \in hits : i <= j]

\* "road marking and SIGNAGE" has been classified: Signage, the earlier
\* category of the table, although its keyword comes later in the sentence
C30_Witness ==
  /\ ai_out.op = "classify"
  /\ ai_in.sentence = <<"r","o","a","d"," ","m","a","r","k","i","n","g"," ","a","n","d"," ","S","I","G","N","A","G","E">>
  /\ ai_out.type = "Signage"


-----------------------------------------------------------------------------
(* The unit of work of a run and the durable write of a lookup *)

\* a step of the pricing loop in which the durable write-back of the lookup
\* raised
durable_write_failed == run.pc = "price" /\ run' # run /\ "durable" \in last'.write_failed

\* C31.  A lookup whose durable cache write fails leaves the staged rows of
\* the enclosing run untouched: the Intervention row flushed for the current
\* candidate and the CostItem rows added so far stay in the unit of work,
\* and the final commit of the run commits a row for every candidate.
C31_WriteFailureKeepsStaged ==
  [][ /\ durable_write_failed =>
           /\ staged.interventions \subseteq staged'.interventions
           /\ staged.cost_items \subseteq staged'.cost_items
      /\ (run.pc = "commit" /\ run'.stage = "COMMITTED") =>
           \A k \in 1..Len(run.ivs) : \E i \in interventions' : i.id = <<run.no, k>> ]_vars

\* the durable write of a lookup has failed in a run whose current candidate
\* was staged: the row is neither in the unit of work nor committed
C31_Witness ==
  /\ run.pc \in {"price", "intervention", "report"}
  /\ "durable" \in last.write_failed
  /\ \A i \in staged.interventions \cup interventions : i.id # run.iv_id


-----------------------------------------------------------------------------
(* The committed totals and the committed rows *)

\* the sum of total_cost over a set of CostItem rows
RECURSIVE sum_costs(_)
sum_costs(items) ==
  IF items = {} THEN 0
  ELSE LET c == CHOOSE c \in items : TRUE
       IN  c.total_cost + sum_costs(items \ {c})

\* the committed Intervention rows of a document and the committed CostItem
\* rows of these
interventions_of(d) == {i \in interventions : i.document_id = d}
cost_items_of(d) == {c \in cost_items : \E i \in interventions_of(d) : i.id = c.intervention_id}

\* C32.  When a run has completed (its final commit is done), the committed
\* Analysis of the document has total_cost equal to the sum of total_cost
\* over the committed CostItem rows of the document's Interventions, and
\* total_interventions equal to the number of committed Intervention rows
\* of the document.
C32_TotalsMatchRows ==
  run.pc = "returned" =>
    /\ \E a \in analyses : a.document_id = run.doc /\ a.completed
    /\ \A a \in analyses :
         a.document_id = run.doc =>
           /\ a.total_cost = sum_costs(cost_items_of(run.doc))
           /\ a.total_interventions = Cardinality(interventions_of(run.doc))

\* a completed run whose committed total is above the sum over its
\* committed CostItem rows
C32_Witness ==
  /\ run.pc = "returned"
  /\ \E a \in analyses :
       /\ a.document_id = run.doc /\ a.completed
       /\ a.total_cost > sum_costs(cost_items_of(run.doc))
       /\ cost_items_of(run.doc) # {}


-----------------------------------------------------------------------------
(* A run on a document that has been analysed before *)

\* process_document has been called for a document that has an Analysis row
again == run.pc = "create_analysis" /\ \E a \in analyses : a.document_id = run.doc

\* C33.  A run of process_document for a document that already has an
\* Analysis row ends in the creation of the provisional Analysis record: it
\* raises there (before any text is extracted, so it never reaches the
\* final commit), the existing Analysis row is unchanged, and the document
\* ends in status FAILED.
C33_RerunFails ==
  [][ again =>
        /\ run'.pc = "done" /\ run'.raised /\ run'.from = "STARTED"
        /\ analyses' = analyses
        /\ documents'[run.doc].status = "failed" ]_vars

\* a second run on a completed document has failed on the unique key of the
\* analyses table, and the document is left in PROCESSING
C33_Witness ==
  /\ run.pc = "done" /\ run.raised /\ run.error = "IntegrityError"
  /\ \E a \in analyses : a.document_id = run.doc /\ a.completed /\ a.id < run.no
  /\ documents[run.doc].status = "processing"


-----------------------------------------------------------------------------
(* The standards service after an initialization that found an index *)

\* the record of the corpus with the code
corpus_record(code) == irc_standards[CHOOSE k \in DOMAIN irc_standards : irc_standards[k].code = code]

\* C34.  Every entry find_relevant_standards returns carries the title and
\* the description of the corpus record of its code, whether the
\* initialization of the service built the index or found a persisted one.
C34_EntriesCarryCorpusText ==
  rag_found.called =>
    \A a \in DOMAIN rag_found.standards :
      LET e == rag_found.standards[a]
      IN  /\ \E k \in DOMAIN irc_standards : irc_standards[k].code = e.code
          /\ e.title = corpus_record(e.code).title
          /\ e.description = corpus_record(e.code).description

\* a service initialized on a persisted index that holds the corpus has
\* returned entries whose title and description are empty
C34_Witness ==
  /\ rag_service.up /\ rag_service.irc_standards_db = {}
  /\ holds_corpus_once(rag_service.mem)
  /\ rag_found.called /\ rag_found.standards # <<>>
  /\ \A a \in DOMAIN rag_found.standards :
       rag_found.standards[a].title = "" /\ rag_found.standards[a].description = ""

\* the index has a document for every standard and for every clause
contains_corpus(index) ==
  \A s \in DOMAIN irc_standards :
    /\ \E k \in DOMAIN index.docs : index.docs[k] = standard_doc(irc_standards[s])
    /\ \A c \in DOMAIN irc_standards[s].clauses :
         \E k \in DOMAIN index.docs :
           index.docs[k] = clause_doc(irc_standards[s], irc_standards[s].clauses[c])

\* C35.  After every successful initialization, whatever initializations
\* came before (failed ones and ones interrupted between the creation of
\* the collection and the add included), the index of the service contains
\* a document for every standard of the corpus and for every clause.
C35_IndexCompleteAfterInit ==
  rag_service.up => contains_corpus(rag_service.mem)

\* the service is initialized on a collection that an earlier, failed
\* initialization created and left empty
C35_Witness ==
  /\ rag_service.up /\ rag_service.collection
  /\ chroma.exists /\ chroma.docs = <<>> /\ rag_service.mem.docs = <<>>


-----------------------------------------------------------------------------
(* What the caches hold *)

\* the 'source' of the two results of _get_fallback_price (a result of the
\* reference table's exact hit or of an external source carries another)
FallbackSources == {"Material_Database", "Estimated"}

\* C36.  A call answered by the fuzzy match or by the generic rate writes
\* to neither cache; every cache entry and every price served from a cache
\* has the source of a reference-table exact hit or of an external source;
\* a result at the generic rate carries requires_verification.
C36_FallbackNeverCached ==
  /\ [][ (is_call /\ last'.tier \in {"fuzzy", "generic"}) =>
            /\ redis' = redis /\ price_cache' = price_cache
            /\ last'.writes = <<>> ]_vars
  /\ [](\A x \in redis \cup price_cache : x.source \notin FallbackSources)
  /\ []((last.ret.kind = "ok" /\ last.ret.from_cache) =>
           /\ last.ret.source \notin FallbackSources
           /\ last.tier \in {"fast", "durable"})
  /\ []((last.ret.kind = "ok" /\ (last.tier = "generic" \/ last.ret.source = "Estimated")) =>
           last.ret.requires_verification)

\* the generic rate was returned, flagged, for a name that had been asked
\* for before, and no cache holds an entry for it
C36_Witness ==
  /\ last.tier = "generic" /\ last.ret.requires_verification
  /\ last.ret.unit_rate = generic_rate
  /\ \A x \in redis \cup price_cache : x.material_name # last.material_name
  /\ \E x \in redis : x.material_name = "Steel Crash Barrier"
  /\ \E x \in price_cache : x.material_name = "Steel Crash Barrier"


-----------------------------------------------------------------------------
(* The hit counter under concurrent lookups *)

\* the call of caller p was served by a durable entry: the query returned
\* the row and the commit of the hit update went through
served_by_durable(p) ==
  lookups[p].pc = "returned" /\ lookups[p].snap.id # 0 /\ lookups[p].read # {}

\* C37.  Under every interleaving of the query, the increment and the commit
\* of concurrent lookups, the hit counter of a durable entry equals the
\* number of lookups it has served (two lookups served by one entry raise
\* its counter by exactly 2).
C37_HitsExact ==
  \A e \in price_cache :
    e.cache_hits = Cardinality({p \in Callers : served_by_durable(p) /\ lookups[p].snap.id = e.id})

\* two callers were served by the same entry and its counter is at 1
C37_Witness ==
  \E p, q \in Callers :
    /\ p # q /\ served_by_durable(p) /\ served_by_durable(q)
    /\ lookups[p].snap.id = lookups[q].snap.id
    /\ \E e \in price_cache : e.id = lookups[p].snap.id /\ e.cache_hits = 1


-----------------------------------------------------------------------------
(* The status COMPLETED and the Analysis row *)

\* the committed Analysis rows of a document
analyses_of(d) == {a \in analyses : a.document_id = d}

\* C38.  A document whose status is COMPLETED has a committed, finalized
\* Analysis row (completed, totals and report path set) and no provisional
\* one; the status becomes COMPLETED only in the step after the final commit
\* of the run, when the finalized row of that run is committed.
C38_CompletedHasFinalAnalysis ==
  /\ [](\A d \in Docs :
          documents[d].status = "completed" =>
            /\ analyses_of(d) # {}
            /\ \A a \in analyses_of(d) : a.completed /\ a.report_path # "None")
  /\ [][ \A d \in Docs :
           (documents'[d].status = "completed" /\ documents[d].status # "completed") =>
              /\ run.doc = d /\ run.pc = "returned" /\ run.stage = "COMMITTED"
              /\ \E a \in analyses :
                   /\ a.id = run.no /\ a.document_id = d /\ a.completed
                   /\ a.total_interventions = Len(run.ivs)
                   /\ a.total_cost = run.total_cost ]_vars

\* a document is COMPLETED with its finalized Analysis committed, and a
\* second run on it has started
C38_Witness ==
  \E d \in Docs :
    /\ documents[d].status = "completed"
    /\ \E a \in analyses_of(d) : a.completed /\ a.total_interventions > 0
    /\ run.doc = d /\ run.pc = "mark_processing" /\ run.no > 1

-----------------------------------------------------------------------------
(* Runs of one document across the worker processes *)

\* C39.  At most one run is in progress per document at any time: two runs
\* of process_document for the same document never overlap, under every
\* interleaving of upload_document, analyze_document and the background
\* tasks; a task is scheduled only by the upload of the document or by an
\* analyze request that read it as COMPLETED.
C39_OneRunPerDocument ==
  /\ [](\A v, w \in Workers :
          (v # w /\ in_progress(v) /\ in_progress(w)) => workers[v].doc # workers[w].doc)
  /\ [][ \A w \in Workers :
           (workers[w].pc = "idle" /\ workers'[w].pc = "scheduled") =>
              \/ /\ documents[workers'[w].doc].status = "absent"
                 /\ documents'[workers'[w].doc].status = "uploaded"
              \/ documents[workers'[w].doc].status = "completed" ]_vars

\* two workers are both past update_status(PROCESSING) in a run of the same
\* document, whose finalized Analysis an earlier run committed
C39_Witness ==
  \E v, w \in Workers :
    /\ v # w
    /\ workers[v].doc = workers[w].doc
    /\ workers[v].pc = "create_analysis" /\ workers[w].pc = "create_analysis"
    /\ documents[workers[v].doc].status = "processing"
    /\ \E a \in analyses : a.document_id = workers[v].doc /\ a.completed

====
